---- MODULE Spec2Model ----
(***************************************************************************)
(* secure-kit: the fixed-window rate limiter (AdvancedRateLimiter,         *)
(* src/core/advanced-rate-limiter.ts) and the security event monitor       *)
(* (SecurityMonitor, src/core/security-monitor.ts) as state machines, with  *)
(* the rate limiting and event logging of SecurityManager                  *)
(* (src/core/security.ts) and of the Koa and Fastify adapters.             *)
(* Time is the value of Date.now() in milliseconds.                        *)
(***************************************************************************)
EXTENDS Integers, Sequences, FiniteSets, TLC

VARIABLES
  now,              \* Date.now()
  \* ---- AdvancedRateLimiter
  config,           \* this.config after the constructor's merge
  store,            \* this.store: identifier -> entry, or NoEntry
  cleanupArmed,     \* this.cleanupInterval is an armed timer
  nextCleanup,      \* earliest time the interval timer fires next
  lastCall,         \* the isAllowed call just made, if the last step was one:
                    \* its input, result and pre-state
  allowedInWindow,  \* per key: calls allowed since its current window opened
  windowOpenedAt,   \* per key: when its current window was opened, or Absent
  calledPastWindow, \* per key: isAllowed was called windowMs or more after the
                    \* current window opened, and the window is still the same
  firstCallAt,      \* per key: time of the first call of the windowMs-long period
                    \* the latest call fell in, or Absent
  allowedSince,     \* per key: calls allowed since firstCallAt
  resetFrom,        \* per key: what reset(k) deleted, until isAllowed(k) follows
  lastSweep,        \* the run of cleanup() just made, if the last step was one
  unswept,          \* where tracked: the store the same isAllowed, reset and
                    \* destroy calls produce when no sweep ever runs, and what
                    \* the isAllowed call just made finds and returns on it
  \* ---- SecurityMonitor
  events,           \* this.events
  metrics,          \* this.metrics
  threatRules,      \* this.threatRules, in insertion order
  lastRuleTrigger,  \* this.lastRuleTrigger: rule id -> time, or Absent
  maxEventsHistory, \* this.maxEventsHistory
  emitted,          \* notifications emitted during the last operation
  lastRecord,       \* the last recordEvent call: input, outcome, pre-state
  calls,            \* recordEvent calls since construction or the last clear()
  firings,          \* rule firings since construction or the last clear()
  sourceCounts,     \* events per source since construction or the last clear()
  snapshot,         \* a value returned by getMetrics(), as its holder sees it
  lastClear,        \* the last clear(), until a recordEvent call follows it
  removal,          \* per rule id: how removeThreatRule(id) found the rule, until
                    \* a recordEvent call is made with a rule of that id registered
  lastRead,         \* the read operation just made, if the last step was one:
                    \* its arguments and the value it returned
  earlierRead,      \* the last getMetrics() or getRecentEvents() and its value,
                    \* until a recordEvent call follows it
  \* ---- SecurityManager
  manager,          \* this.config.security.rateLimit, this.rateLimitStore and
                    \* this.securityEvents
  lastCheck,        \* the checkRateLimit call or adapter request just made, if
                    \* the last step was one: its input, result and response
  clientWindows     \* per identifier: when the window its latest call fell in
                    \* was opened, and the calls made in that window

limiterVars == <<config, store, cleanupArmed, nextCleanup, lastCall,
                 allowedInWindow, windowOpenedAt, calledPastWindow,
                 firstCallAt, allowedSince, resetFrom, lastSweep, unswept>>
monitorCore == <<events, metrics, threatRules, lastRuleTrigger,
                 maxEventsHistory, emitted, lastRecord, calls, firings,
                 sourceCounts, snapshot, lastClear, removal>>
monitorVars == <<monitorCore, lastRead, earlierRead>>
managerVars == <<manager, lastCheck, clientWindows>>
vars == <<now, limiterVars, monitorVars, managerVars>>

\* undefined / a missing Map entry, for numbers
Absent == -1
\* the number NaN, which no count the program makes is equal to
NaN == -2

Max(a, b) == IF a >= b THEN a ELSE b
Min(a, b) == IF a <= b THEN a ELSE b

(***************************************************************************)
(*                         AdvancedRateLimiter                             *)
(***************************************************************************)

\* ---- bounds of the limiter model
MaxLimit == 2
MaxViolations == 2
LimiterHorizon == 120000
Keys == {"k1", "k2"}
LimiterSteps == {30000}

\* ---- program constants
DefaultWindowMs == 900000
DefaultMax == 100
CleanupIntervalMs == 60000
TestWindowMs == 60000

NoEntry == [count |-> Absent, resetTime |-> Absent, violations |-> Absent]

\* a || b on numbers: 0 and undefined are falsy
OrElse(a, b) == IF a = Absent \/ a = 0 THEN b ELSE a

\* { windowMs: 15min, max: 100, maxRequests: 100, ...config }
MergeConfig(opts) ==
  [windowMs    |-> IF opts.windowMs = Absent THEN DefaultWindowMs ELSE opts.windowMs,
   max         |-> IF opts.max = Absent THEN DefaultMax ELSE opts.max,
   maxRequests |-> IF opts.maxRequests = Absent THEN DefaultMax ELSE opts.maxRequests]

\* the limits isAllowed computes on every call
Limits(cfg) ==
  [windowMs    |-> OrElse(cfg.windowMs, DefaultWindowMs),
   maxRequests |-> OrElse(cfg.maxRequests, OrElse(cfg.max, DefaultMax))]

\* Math.ceil(a / b) for b > 0
CeilDiv(a, b) == IF a >= 0 THEN (a + b - 1) \div b ELSE -((-a) \div b)

\* now > entry.resetTime
WindowExpired(entry, t) == t > entry.resetTime

\* the options the limiter is constructed with
LimiterOptions ==
  { [windowMs |-> TestWindowMs, max |-> Absent, maxRequests |-> m] : m \in 1..MaxLimit }

NoStats == [totalEntries |-> Absent, activeEntries |-> Absent, totalViolations |-> Absent]

NoCall == [op |-> "none", armedBefore |-> FALSE, stats |-> NoStats,
           key |-> "none", at |-> Absent, allowed |-> FALSE, remaining |-> Absent,
           resetTime |-> Absent, retryAfter |-> Absent, preAllowed |-> Absent,
           preOpened |-> Absent, preSeen |-> FALSE, didReset |-> FALSE,
           pre |-> NoEntry, post |-> NoEntry, afterReset |-> "none",
           firstCallAt |-> Absent, allowedSince |-> Absent]

NoSweep == [made |-> FALSE, at |-> Absent, deleted |-> {}, kept |-> {}]

\* an isAllowed that starts a new window with violations: 0
EntryForgettingViolations(k) ==
  LET e == store[k] IN
  IF e = NoEntry \/ WindowExpired(e, now)
  THEN [count |-> 0, resetTime |-> now + Limits(config).windowMs, violations |-> 0]
  ELSE e

\* the entry isAllowed works on: the stored one, or a fresh one
EntryFor(k) ==
  LET e == store[k] IN
  IF e = NoEntry \/ WindowExpired(e, now)
  THEN [count |-> 0,
        resetTime |-> now + Limits(config).windowMs,
        violations |-> IF e = NoEntry THEN 0 ELSE e.violations]
  ELSE e

NoDecision == [allowed |-> FALSE, remaining |-> Absent, resetTime |-> Absent,
               retryAfter |-> Absent]

Untracked == [tracked |-> FALSE, store |-> [k \in Keys |-> NoEntry], found |-> NoEntry,
              last |-> NoDecision]
Tracked == [Untracked EXCEPT !.tracked = TRUE]

\* isAllowed as a function of the entry it finds stored: the entry it stores
\* and the value it returns
Decision(e) ==
  LET lim == Limits(config)
      entry == IF e = NoEntry \/ WindowExpired(e, now)
               THEN [count |-> 0, resetTime |-> now + lim.windowMs,
                     violations |-> IF e = NoEntry THEN 0 ELSE e.violations]
               ELSE e
  IN IF entry.count >= lim.maxRequests
     THEN [entry |-> [entry EXCEPT !.violations = @ + 1],
           result |-> [allowed |-> FALSE, remaining |-> 0, resetTime |-> entry.resetTime,
                       retryAfter |-> CeilDiv(entry.resetTime - now, 1000)]]
     ELSE [entry |-> [entry EXCEPT !.count = @ + 1],
           result |-> [allowed |-> TRUE, remaining |-> lim.maxRequests - (entry.count + 1),
                       resetTime |-> entry.resetTime, retryAfter |-> Absent]]

\* the same isAllowed call on the store no sweep has touched
UnsweptAfterCall(k) ==
  IF unswept.tracked
  THEN LET d == Decision(unswept.store[k])
       IN [unswept EXCEPT !.store[k] = d.entry, !.found = unswept.store[k],
                          !.last = d.result]
  ELSE unswept

\* any other operation: only reset and destroy delete from that store
UnsweptAfter(deleted) ==
  [unswept EXCEPT !.store = [k \in Keys |-> IF k \in deleted THEN NoEntry ELSE @[k]],
                  !.found = NoEntry, !.last = NoDecision]

IsAllowed(k) ==
  LET old == store[k]
      fresh == old = NoEntry \/ WindowExpired(old, now)
      entry == EntryFor(k)
      lim == Limits(config)
      pre == [preAllowed |-> allowedInWindow[k], preOpened |-> windowOpenedAt[k],
              preSeen |-> calledPastWindow[k], didReset |-> fresh]
      allowed == entry.count < lim.maxRequests
      newPeriod == firstCallAt[k] = Absent \/ now - firstCallAt[k] >= lim.windowMs
      first == IF newPeriod THEN now ELSE firstCallAt[k]
      since == (IF newPeriod THEN 0 ELSE allowedSince[k]) + (IF allowed THEN 1 ELSE 0)
  IN
  /\ firstCallAt' = [firstCallAt EXCEPT ![k] = first]
  /\ allowedSince' = [allowedSince EXCEPT ![k] = since]
  /\ resetFrom' = [resetFrom EXCEPT ![k] = "none"]
  /\ unswept' = UnsweptAfterCall(k)
  /\ IF entry.count >= lim.maxRequests
     THEN /\ entry.violations < MaxViolations
          /\ store' = [store EXCEPT ![k] = [entry EXCEPT !.violations = @ + 1]]
          /\ lastCall' = [op |-> "isAllowed", armedBefore |-> FALSE, stats |-> NoStats,
                          key |-> k, at |-> now, allowed |-> FALSE, remaining |-> 0,
                          resetTime |-> entry.resetTime,
                          retryAfter |-> CeilDiv(entry.resetTime - now, 1000),
                          preAllowed |-> pre.preAllowed, preOpened |-> pre.preOpened,
                          preSeen |-> pre.preSeen, didReset |-> pre.didReset,
                          pre |-> old, post |-> [entry EXCEPT !.violations = @ + 1],
                          afterReset |-> resetFrom[k],
                          firstCallAt |-> first, allowedSince |-> since]
          /\ allowedInWindow' = [allowedInWindow EXCEPT ![k] = IF fresh THEN 0 ELSE @]
          /\ windowOpenedAt' = [windowOpenedAt EXCEPT ![k] = IF fresh THEN now ELSE @]
     ELSE /\ store' = [store EXCEPT ![k] = [entry EXCEPT !.count = @ + 1]]
          /\ lastCall' = [op |-> "isAllowed", armedBefore |-> FALSE, stats |-> NoStats,
                          key |-> k, at |-> now, allowed |-> TRUE,
                          remaining |-> lim.maxRequests - (entry.count + 1),
                          resetTime |-> entry.resetTime, retryAfter |-> Absent,
                          preAllowed |-> pre.preAllowed, preOpened |-> pre.preOpened,
                          preSeen |-> pre.preSeen, didReset |-> pre.didReset,
                          pre |-> old, post |-> [entry EXCEPT !.count = @ + 1],
                          afterReset |-> resetFrom[k],
                          firstCallAt |-> first, allowedSince |-> since]
          /\ allowedInWindow' = [allowedInWindow EXCEPT ![k] = IF fresh THEN 1 ELSE @ + 1]
          /\ windowOpenedAt' = [windowOpenedAt EXCEPT ![k] = IF fresh THEN now ELSE @]

IsAllowedCall ==
  /\ \E k \in Keys :
       /\ IsAllowed(k)
       /\ calledPastWindow' =
            [calledPastWindow EXCEPT ![k] =
               windowOpenedAt'[k] = windowOpenedAt[k]
               /\ (@ \/ now - windowOpenedAt[k] >= Limits(config).windowMs)]
  /\ lastSweep' = NoSweep
  /\ UNCHANGED <<now, config, cleanupArmed, nextCleanup, monitorVars, managerVars>>

\* a cleanup() that deletes every expired entry
ToDeleteExpired ==
  {k \in Keys : store[k] /= NoEntry /\ WindowExpired(store[k], now)}

\* a cleanup() that deletes the violation-free entries whose window is running
ToDeleteUnexpired ==
  {k \in Keys : store[k] /= NoEntry /\ ~WindowExpired(store[k], now)
                /\ store[k].violations = 0}

\* the keys cleanup() deletes
ToDelete ==
  {k \in Keys : store[k] /= NoEntry /\ WindowExpired(store[k], now)
                /\ store[k].violations = 0}

\* the setInterval callback: cleanup()
Cleanup ==
  /\ cleanupArmed
  /\ now >= nextCleanup
  /\ store' = [k \in Keys |-> IF k \in ToDelete THEN NoEntry ELSE store[k]]
  /\ allowedInWindow' = [k \in Keys |-> IF k \in ToDelete THEN 0 ELSE allowedInWindow[k]]
  /\ windowOpenedAt' = [k \in Keys |-> IF k \in ToDelete THEN Absent ELSE windowOpenedAt[k]]
  /\ calledPastWindow' = [k \in Keys |-> k \notin ToDelete /\ calledPastWindow[k]]
  /\ firstCallAt' = [k \in Keys |-> IF k \in ToDelete THEN Absent ELSE firstCallAt[k]]
  /\ allowedSince' = [k \in Keys |-> IF k \in ToDelete THEN 0 ELSE allowedSince[k]]
  /\ lastSweep' = [made |-> TRUE, at |-> now, deleted |-> ToDelete,
                   kept |-> {k \in Keys : store[k] /= NoEntry} \ ToDelete]
  /\ nextCleanup' = now + CleanupIntervalMs
  /\ lastCall' = NoCall
  /\ unswept' = UnsweptAfter({})
  /\ UNCHANGED <<now, config, cleanupArmed, resetFrom, monitorVars, managerVars>>

\* the state of a key's entry, as reset(k) finds it
EntryState(entry, t) ==
  CASE entry = NoEntry -> "absent"
    [] entry.violations > 0 -> "violated"
    [] t > entry.resetTime -> "expired"
    [] OTHER -> "counting"

\* a reset(k) that sets the entry's count to 0 and keeps the entry
ResetCountOnly(k) ==
  /\ store' = [store EXCEPT ![k] = IF @ = NoEntry THEN @ ELSE [@ EXCEPT !.count = 0]]
  /\ allowedInWindow' = [allowedInWindow EXCEPT ![k] = 0]
  /\ windowOpenedAt' = [windowOpenedAt EXCEPT ![k] = Absent]
  /\ calledPastWindow' = [calledPastWindow EXCEPT ![k] = FALSE]
  /\ firstCallAt' = [firstCallAt EXCEPT ![k] = Absent]
  /\ allowedSince' = [allowedSince EXCEPT ![k] = 0]
  /\ resetFrom' = [resetFrom EXCEPT ![k] = EntryState(store[k], now)]
  /\ lastSweep' = NoSweep
  /\ lastCall' = NoCall
  /\ unswept' = UnsweptAfter({k})
  /\ UNCHANGED <<now, config, cleanupArmed, nextCleanup, monitorVars, managerVars>>

Reset(k) ==
  /\ store' = [store EXCEPT ![k] = NoEntry]
  /\ allowedInWindow' = [allowedInWindow EXCEPT ![k] = 0]
  /\ windowOpenedAt' = [windowOpenedAt EXCEPT ![k] = Absent]
  /\ calledPastWindow' = [calledPastWindow EXCEPT ![k] = FALSE]
  /\ firstCallAt' = [firstCallAt EXCEPT ![k] = Absent]
  /\ allowedSince' = [allowedSince EXCEPT ![k] = 0]
  /\ resetFrom' = [resetFrom EXCEPT ![k] = EntryState(store[k], now)]
  /\ lastSweep' = NoSweep
  /\ lastCall' = NoCall
  /\ unswept' = UnsweptAfter({k})
  /\ UNCHANGED <<now, config, cleanupArmed, nextCleanup, monitorVars, managerVars>>

ResetCall == \E k \in Keys : Reset(k)

\* a destroy() that clears the store and leaves the interval timer running
DestroyKeepingTimer ==
  /\ cleanupArmed' = cleanupArmed
  /\ store' = [k \in Keys |-> NoEntry]
  /\ allowedInWindow' = [k \in Keys |-> 0]
  /\ windowOpenedAt' = [k \in Keys |-> Absent]
  /\ calledPastWindow' = [k \in Keys |-> FALSE]
  /\ firstCallAt' = [k \in Keys |-> Absent]
  /\ allowedSince' = [k \in Keys |-> 0]
  /\ lastSweep' = NoSweep
  /\ lastCall' = [NoCall EXCEPT !.op = "destroy", !.armedBefore = cleanupArmed]
  /\ unswept' = UnsweptAfter(Keys)
  /\ UNCHANGED <<now, config, nextCleanup, resetFrom, monitorVars, managerVars>>

\* destroy(): clearInterval(this.cleanupInterval), this.store.clear()
Destroy ==
  /\ cleanupArmed' = FALSE
  /\ store' = [k \in Keys |-> NoEntry]
  /\ allowedInWindow' = [k \in Keys |-> 0]
  /\ windowOpenedAt' = [k \in Keys |-> Absent]
  /\ calledPastWindow' = [k \in Keys |-> FALSE]
  /\ firstCallAt' = [k \in Keys |-> Absent]
  /\ allowedSince' = [k \in Keys |-> 0]
  /\ lastSweep' = NoSweep
  /\ lastCall' = [NoCall EXCEPT !.op = "destroy", !.armedBefore = cleanupArmed]
  /\ unswept' = UnsweptAfter(Keys)
  /\ UNCHANGED <<now, config, nextCleanup, resetFrom, monitorVars, managerVars>>

DestroyCall == Destroy

\* totalViolations += entry.violations over the entries of the given keys
RECURSIVE SumViolations(_)
SumViolations(keys) ==
  IF keys = {} THEN 0
  ELSE LET k == CHOOSE x \in keys : TRUE
       IN store[k].violations + SumViolations(keys \ {k})

\* a getStats that counts an entry as active only before its resetTime
StatsBeforeResetTime ==
  LET stored == {k \in Keys : store[k] /= NoEntry}
  IN [totalEntries |-> Cardinality(stored),
      activeEntries |-> Cardinality({k \in stored : now < store[k].resetTime}),
      totalViolations |-> SumViolations(stored)]

\* the value getStats() returns
Stats ==
  LET stored == {k \in Keys : store[k] /= NoEntry}
  IN [totalEntries |-> Cardinality(stored),
      activeEntries |-> Cardinality({k \in stored : now <= store[k].resetTime}),
      totalViolations |-> SumViolations(stored)]

\* getStats()
GetStats ==
  /\ lastCall' = [NoCall EXCEPT !.op = "getStats", !.stats = Stats]
  /\ lastSweep' = NoSweep
  /\ unswept' = UnsweptAfter({})
  /\ UNCHANGED <<now, config, store, cleanupArmed, nextCleanup, allowedInWindow,
                 windowOpenedAt, calledPastWindow, firstCallAt, allowedSince,
                 resetFrom, monitorVars, managerVars>>

GetStatsCall == GetStats

\* the clock advances between operations
LimiterTick ==
  /\ \E d \in LimiterSteps : now + d <= LimiterHorizon /\ now' = now + d
  /\ lastSweep' = NoSweep
  /\ lastCall' = NoCall
  /\ unswept' = UnsweptAfter({})
  /\ UNCHANGED <<config, store, cleanupArmed, nextCleanup, allowedInWindow,
                 windowOpenedAt, calledPastWindow, firstCallAt, allowedSince,
                 resetFrom, monitorVars, managerVars>>

(***************************************************************************)
(*                            SecurityMonitor                              *)
(***************************************************************************)

\* ---- bounds of the monitor model
HistoryLimit == 3
MaxCalls == 4
MonitorHorizon == 600000
MonitorSteps == {150000, 300000}
CustomCooldownMs == 300000
Suffixes == {"a"}

\* ---- program constants
DefaultMaxEventsHistory == 10000
RecentEventsLimit == 10
SuspiciousThreshold == 5
DefaultSuspiciousWindowMs == 300000
TopThreatsLimit == 10
ReportSourceThreshold == 10
HighAdvisoryThreshold == 10
InjectionAdvisoryThreshold == 5
AuthAdvisoryThreshold == 20
DefaultRecentLimit == 100
TopSourcesLimit == 10
BruteForceWindowMs == 300000
BruteForceThreshold == 5
BruteForceCooldownMs == 600000
InjectionWindowMs == 600000
InjectionThreshold == 3
InjectionCooldownMs == 300000
RateAbuseWindowMs == 3600000
RateAbuseThreshold == 10
RateAbuseCooldownMs == 1800000

SecurityEventType ==
  {"rate_limit_exceeded", "suspicious_input", "authentication_failure",
   "unauthorized_access", "sql_injection_attempt", "xss_attempt",
   "csrf_token_mismatch", "file_upload_violation", "security_header_missing",
   "malformed_request", "brute_force_attempt", "anomalous_behavior"}

Severities == {"low", "medium", "high", "critical"}

NoId == <<Absent, "none">>
NoDetails == [ruleName |-> "none", triggerEvent |-> NoId, action |-> "none"]

\* ---- threat detection rules

\* the rules loadDefaultThreatRules registers, in this order
DefaultThreatRules ==
  << [id |-> "brute_force_detection", name |-> "Brute Force Attack Detection",
      eventTypes |-> {"authentication_failure"}, condition |-> "brute_force",
      action |-> "block", severity |-> "high", cooldown |-> BruteForceCooldownMs],
     [id |-> "injection_attack_pattern", name |-> "Injection Attack Pattern",
      eventTypes |-> {"sql_injection_attempt"}, condition |-> "injection",
      action |-> "alert", severity |-> "high", cooldown |-> InjectionCooldownMs],
     [id |-> "rate_limit_abuse", name |-> "Rate Limit Abuse",
      eventTypes |-> {"rate_limit_exceeded"}, condition |-> "rate_limit_abuse",
      action |-> "block", severity |-> "medium", cooldown |-> RateAbuseCooldownMs] >>

\* rules an operator registers: a condition that always holds, and one that throws
AlwaysRule ==
  [id |-> "custom_always", name |-> "Always", eventTypes |-> {"xss_attempt", "anomalous_behavior"},
   condition |-> "always", action |-> "log", severity |-> "low",
   cooldown |-> CustomCooldownMs]
ThrowingRule ==
  [id |-> "custom_throwing", name |-> "Throwing", eventTypes |-> {"xss_attempt"},
   condition |-> "throws", action |-> "alert", severity |-> "low", cooldown |-> 0]

\* rules an operator registers for each of the other two actions
BlockingRule ==
  [id |-> "custom_block", name |-> "Blocking", eventTypes |-> {"xss_attempt"},
   condition |-> "always", action |-> "block", severity |-> "critical",
   cooldown |-> CustomCooldownMs]
AlertingRule ==
  [id |-> "custom_alert", name |-> "Alerting", eventTypes |-> {"xss_attempt"},
   condition |-> "always", action |-> "alert", severity |-> "medium",
   cooldown |-> CustomCooldownMs]

RuleIds == {"brute_force_detection", "injection_attack_pattern", "rate_limit_abuse",
            "custom_always", "custom_throwing", "custom_block", "custom_alert"}

\* a checkThreatRules that skips no rule for the event's type
InterestedInAll(rule, event) == TRUE

\* rule.eventTypes.includes(event.type)
Interested(rule, event) == event.type \in rule.eventTypes

\* events.filter(e => e.type === type && Date.now() - e.timestamp < window)
RecentOfType(evts, type, window, t) ==
  {i \in DOMAIN evts : evts[i].type = type /\ t - evts[i].timestamp < window}

\* Array.from(sourceGroups.values()).some(count => count >= threshold)
SomeSourceReaches(evts, idx, threshold) ==
  \E s \in {evts[i].source : i \in idx} :
    Cardinality({i \in idx : evts[i].source = s}) >= threshold

\* rule.condition(this.events) evaluated at time t, for a condition that returns
Condition(kind, evts, t) ==
  CASE kind = "brute_force" ->
         SomeSourceReaches(evts, RecentOfType(evts, "authentication_failure", BruteForceWindowMs, t),
                           BruteForceThreshold)
    [] kind = "injection" ->
         Cardinality(RecentOfType(evts, "sql_injection_attempt", InjectionWindowMs, t))
           >= InjectionThreshold
    [] kind = "rate_limit_abuse" ->
         SomeSourceReaches(evts, RecentOfType(evts, "rate_limit_exceeded", RateAbuseWindowMs, t),
                           RateAbuseThreshold)
    [] kind = "always" -> TRUE
    [] OTHER -> FALSE

\* lastTrigger && Date.now() - lastTrigger < rule.cooldown
InCooldown(lastTrigger, cooldown, t) ==
  lastTrigger /= Absent /\ lastTrigger /= 0 /\ t - lastTrigger < cooldown

\* ---- metrics

InitializeMetrics ==
  [totalEvents |-> 0,
   eventsByType |-> [t \in SecurityEventType |-> 0],
   eventsBySeverity |-> [s \in Severities |-> 0],
   recentEvents |-> <<>>,
   topSources |-> <<>>]

Take(s, n) == SubSeq(s, 1, Min(n, Len(s)))

\* where Array.prototype.sort((a, b) => b.count - a.count), a stable sort, puts x
InsertStable(sorted, x) ==
  LET k == Cardinality({i \in DOMAIN sorted : sorted[i].count >= x.count})
  IN SubSeq(sorted, 1, k) \o <<x>> \o SubSeq(sorted, k + 1, Len(sorted))

RECURSIVE SortByCountDesc(_)
SortByCountDesc(s) ==
  IF s = <<>> THEN <<>>
  ELSE InsertStable(SortByCountDesc(SubSeq(s, 1, Len(s) - 1)), s[Len(s)])

\* updateTopSources up to and including the in-place sort
CountedAndSorted(top, source) ==
  LET counted ==
        IF \E i \in DOMAIN top : top[i].source = source
        THEN [i \in DOMAIN top |->
                IF top[i].source = source THEN [top[i] EXCEPT !.count = @ + 1] ELSE top[i]]
        ELSE Append(top, [source |-> source, count |-> 1])
  IN SortByCountDesc(counted)

UpdateTopSources(top, source) == Take(CountedAndSorted(top, source), TopSourcesLimit)

TopSourceNames(top) == {top[i].source : i \in DOMAIN top}

NoSnapshot ==
  [held |-> FALSE, taken |-> InitializeMetrics, seen |-> InitializeMetrics,
   fieldsShared |-> FALSE, arrayShared |-> FALSE, entriesShared |-> {}]

\* What the holder of an earlier getMetrics() result sees after updateMetrics:
\* the result is { ...this.metrics }, so its eventsByType, eventsBySeverity,
\* recentEvents and topSources are the objects of this.metrics until clear()
\* replaces them; updateTopSources replaces the array (slice) but keeps its entries.
SnapshotAfterUpdate(snap, newMetrics, oldTop, source) ==
  IF ~snap.held THEN snap
  ELSE
    LET sorted == CountedAndSorted(oldTop, source)
        seenTop ==
          IF snap.arrayShared THEN sorted
          ELSE [i \in DOMAIN snap.seen.topSources |->
                  IF snap.seen.topSources[i].source = source /\ source \in snap.entriesShared
                  THEN [snap.seen.topSources[i] EXCEPT !.count = @ + 1]
                  ELSE snap.seen.topSources[i]]
    IN [held |-> TRUE,
        taken |-> snap.taken,
        seen |-> [totalEvents |-> snap.seen.totalEvents,
                  eventsByType |-> IF snap.fieldsShared THEN newMetrics.eventsByType
                                   ELSE snap.seen.eventsByType,
                  eventsBySeverity |-> IF snap.fieldsShared THEN newMetrics.eventsBySeverity
                                       ELSE snap.seen.eventsBySeverity,
                  recentEvents |-> IF snap.fieldsShared THEN newMetrics.recentEvents
                                   ELSE snap.seen.recentEvents,
                  topSources |-> seenTop],
        fieldsShared |-> snap.fieldsShared,
        arrayShared |-> FALSE,
        entriesShared |-> snap.entriesShared \cap TopSourceNames(newMetrics.topSources)]

\* counts[key]++ on a plain object: a missing key reads undefined, and both
\* undefined + 1 and NaN + 1 are NaN
Incremented(counts, key) ==
  IF key \in DOMAIN counts
  THEN [counts EXCEPT ![key] = IF @ = NaN THEN NaN ELSE @ + 1]
  ELSE counts @@ (key :> NaN)

\* an updateMetrics without this.metrics.eventsBySeverity[event.severity]++
MetricsAfterWithoutSeverity(m, event) ==
  [totalEvents |-> m.totalEvents + 1,
   eventsByType |-> Incremented(m.eventsByType, event.type),
   eventsBySeverity |-> m.eventsBySeverity,
   recentEvents |-> LET r == Append(m.recentEvents, event)
                    IN IF Len(r) > RecentEventsLimit THEN Tail(r) ELSE r,
   topSources |-> UpdateTopSources(m.topSources, event.source)]

MetricsAfter(m, event) ==
  [totalEvents |-> m.totalEvents + 1,
   eventsByType |-> Incremented(m.eventsByType, event.type),
   eventsBySeverity |-> [m.eventsBySeverity EXCEPT ![event.severity] = @ + 1],
   recentEvents |-> LET r == Append(m.recentEvents, event)
                    IN IF Len(r) > RecentEventsLimit THEN Tail(r) ELSE r,
   topSources |-> UpdateTopSources(m.topSources, event.source)]

\* updateMetrics on the state a recordEvent call works on
UpdateMetrics(st, event) ==
  LET m == MetricsAfter(st.metrics, event) IN
  [st EXCEPT !.metrics = m,
             !.snapshot = SnapshotAfterUpdate(st.snapshot, m, st.metrics.topSources, event.source)]

\* ---- recordEvent

\* generateEventId: `sec_${Date.now()}_${random}`
GenerateEventId(st) == <<now, st.suffixes[st.idsMade + 1]>>

Emit(st, n) == [st EXCEPT !.emitted = Append(@, n)]

Notification(kind, ruleId, eventId, threatId, source) ==
  [kind |-> kind, rule |-> ruleId, event |-> eventId, threat |-> threatId, source |-> source]

ThreatEventOf(st, rule, triggerEvent) ==
  [id |-> GenerateEventId(st), timestamp |-> now, type |-> "anomalous_behavior",
   severity |-> rule.severity, source |-> triggerEvent.source,
   details |-> [ruleName |-> rule.name, triggerEvent |-> triggerEvent.id,
                action |-> rule.action]]

\* a handleThreatDetection that appends the threat event without updateMetrics
ThreatRecordedUncounted(st, rule, triggerEvent) ==
  LET threatEvent == ThreatEventOf(st, rule, triggerEvent)
      pushed == [st EXCEPT !.events = Append(@, threatEvent),
                           !.idsMade = @ + 1,
                           !.fired = Append(@, rule.id)]
  IN Emit(pushed,
          Notification("threatDetected", rule.id, triggerEvent.id, threatEvent.id,
                       triggerEvent.source))

\* handleThreatDetection up to the threatDetected notification
\* a handleThreatDetection that also announces the threat event it appends
ThreatRecordedAnnounced(st, rule, triggerEvent) ==
  LET threatEvent == ThreatEventOf(st, rule, triggerEvent)
      pushed == [st EXCEPT !.events = Append(@, threatEvent),
                           !.idsMade = @ + 1,
                           !.fired = Append(@, rule.id)]
  IN Emit(Emit(UpdateMetrics(pushed, threatEvent),
               Notification("threatDetected", rule.id, triggerEvent.id, threatEvent.id,
                            triggerEvent.source)),
          Notification("securityEvent", "none", threatEvent.id, NoId, threatEvent.source))

ThreatRecorded(st, rule, triggerEvent) ==
  LET threatEvent == ThreatEventOf(st, rule, triggerEvent)
      pushed == [st EXCEPT !.events = Append(@, threatEvent),
                           !.idsMade = @ + 1,
                           !.fired = Append(@, rule.id)]
  IN Emit(UpdateMetrics(pushed, threatEvent),
          Notification("threatDetected", rule.id, triggerEvent.id, threatEvent.id,
                       triggerEvent.source))

\* a switch (rule.action) whose 'alert' case falls through from 'block'
ActionTakenFallingThrough(st, rule, triggerEvent) ==
  CASE rule.action = "block" ->
         Emit(Emit(st, Notification("blockRequest", rule.id, NoId, NoId, triggerEvent.source)),
              Notification("securityAlert", rule.id, triggerEvent.id, NoId,
                           triggerEvent.source))
    [] rule.action = "alert" ->
         Emit(st, Notification("securityAlert", rule.id, triggerEvent.id, NoId,
                               triggerEvent.source))
    [] OTHER -> st

\* switch (rule.action)
ActionTaken(st, rule, triggerEvent) ==
  CASE rule.action = "block" ->
         Emit(st, Notification("blockRequest", rule.id, NoId, NoId, triggerEvent.source))
    [] rule.action = "alert" ->
         Emit(st, Notification("securityAlert", rule.id, triggerEvent.id, NoId,
                               triggerEvent.source))
    [] OTHER -> st

RECURSIVE CheckThreatRulesFrom(_, _, _)

\* a handleThreatDetection that runs checkThreatRules on the threat event it appends
HandleThreatDetectionReentrant(st, rule, triggerEvent) ==
  LET done == ActionTaken(ThreatRecorded(st, rule, triggerEvent), rule, triggerEvent)
      threatEvent == done.events[Len(done.events)]
  IN IF Len(done.evaluated) < 3 THEN CheckThreatRulesFrom(done, threatEvent, 1) ELSE done

HandleThreatDetection(st, rule, triggerEvent) ==
  ActionTaken(ThreatRecorded(st, rule, triggerEvent), rule, triggerEvent)

\* the loop of checkThreatRules from the i-th registered rule on
CheckThreatRulesFrom(st, event, i) ==
  IF i > Len(threatRules) \/ st.threw THEN st
  ELSE
    LET rule == threatRules[i] IN
    IF ~Interested(rule, event) THEN CheckThreatRulesFrom(st, event, i + 1)
    ELSE IF InCooldown(st.lastRuleTrigger[rule.id], rule.cooldown, now)
    THEN CheckThreatRulesFrom(st, event, i + 1)
    ELSE
      LET evaluating == [st EXCEPT !.evaluated = Append(@, rule.id)] IN
      IF rule.condition = "throws" THEN [evaluating EXCEPT !.threw = TRUE]
      ELSE IF Condition(rule.condition, evaluating.events, now)
      THEN CheckThreatRulesFrom(
             HandleThreatDetection([evaluating EXCEPT !.lastRuleTrigger[rule.id] = now],
                                   rule, event),
             event, i + 1)
      ELSE CheckThreatRulesFrom(evaluating, event, i + 1)

CheckThreatRules(st, event) == CheckThreatRulesFrom(st, event, 1)

\* this.events.push(fullEvent); if (length > maxEventsHistory) this.events.shift()
PushBounded(evts, event) ==
  LET pushed == Append(evts, event)
  IN IF Len(pushed) > maxEventsHistory THEN Tail(pushed) ELSE pushed

\* the whole of recordEvent, as a function of the state it starts from
Recorded(input, suffixes) ==
  LET st0 == [events |-> events, metrics |-> metrics, snapshot |-> snapshot,
              lastRuleTrigger |-> lastRuleTrigger, emitted |-> <<>>,
              evaluated |-> <<>>, fired |-> <<>>, threw |-> FALSE,
              suffixes |-> suffixes, idsMade |-> 0]
      fullEvent == [id |-> GenerateEventId(st0), timestamp |-> now, type |-> input.type,
                    severity |-> input.severity, source |-> input.source,
                    details |-> NoDetails]
      st1 == [st0 EXCEPT !.events = PushBounded(@, fullEvent), !.idsMade = 1]
      st2 == UpdateMetrics(st1, fullEvent)
      st3 == CheckThreatRules(st2, fullEvent)
  IN [state |-> IF st3.threw THEN st3
                ELSE Emit(st3, Notification("securityEvent", "none", fullEvent.id, NoId,
                                            fullEvent.source)),
      event |-> fullEvent]

\* no clear() since the last recordEvent call
NoClear == [made |-> FALSE, cooling |-> {}, rules |-> <<>>]

NoRemoval == [r \in RuleIds |-> "none"]

NoRead == [op |-> "none", args |-> <<>>, result |-> <<>>,
           previous |-> [held |-> FALSE, result |-> <<>>, cleared |-> FALSE]]
NoEarlier == [op |-> "none", args |-> <<>>, result |-> <<>>, cleared |-> FALSE]

NoRecord ==
  [made |-> FALSE, afterClear |-> NoClear, removal |-> NoRemoval, at |-> Absent, event |-> [id |-> NoId, timestamp |-> Absent,
     type |-> "none", severity |-> "none", source |-> "none", details |-> NoDetails],
   threw |-> FALSE, evaluated |-> <<>>, fired |-> <<>>, preEvents |-> <<>>,
   preTotal |-> 0, preTrigger |-> [r \in RuleIds |-> Absent]]

\* recordEvent as the monitor sees it, whoever calls it
RecordedByMonitor(input, suffixes, maxCalls) ==
  /\ calls < maxCalls
  /\ LET r == Recorded(input, suffixes) IN
     /\ events' = r.state.events
     /\ metrics' = r.state.metrics
     /\ snapshot' = r.state.snapshot
     /\ lastRuleTrigger' = r.state.lastRuleTrigger
     /\ emitted' = r.state.emitted
     /\ lastRecord' = [made |-> TRUE, afterClear |-> lastClear, removal |-> removal,
                       at |-> now, event |-> r.event,
                       threw |-> r.state.threw, evaluated |-> r.state.evaluated,
                       fired |-> r.state.fired, preEvents |-> events,
                       preTotal |-> metrics.totalEvents, preTrigger |-> lastRuleTrigger]
     /\ lastClear' = NoClear
     /\ lastRead' = NoRead
     /\ earlierRead' = NoEarlier
     /\ removal' = [id \in RuleIds |->
                      IF \E i \in DOMAIN threatRules : threatRules[i].id = id
                      THEN "none" ELSE removal[id]]
     /\ calls' = calls + 1
     /\ firings' = firings + Len(r.state.fired)
     /\ sourceCounts' =
          [s \in DOMAIN sourceCounts |->
             sourceCounts[s] + (IF s = input.source THEN 1 + Len(r.state.fired) ELSE 0)]
  /\ UNCHANGED <<now, limiterVars, threatRules, maxEventsHistory>>

RecordEvent(input, suffixes, maxCalls) ==
  /\ RecordedByMonitor(input, suffixes, maxCalls)
  /\ UNCHANGED managerVars

\* the registered rules whose cooldown has not elapsed at time t
RulesCooling(t) ==
  {threatRules[i].id : i \in {j \in DOMAIN threatRules :
      /\ lastRuleTrigger[threatRules[j].id] /= Absent
      /\ t - lastRuleTrigger[threatRules[j].id] < threatRules[j].cooldown}}

\* clear()
Clear ==
  /\ events' = <<>>
  /\ metrics' = InitializeMetrics
  /\ lastRuleTrigger' = [r \in RuleIds |-> Absent]
  /\ snapshot' = IF snapshot.held
                 THEN [snapshot EXCEPT !.fieldsShared = FALSE, !.arrayShared = FALSE,
                                       !.entriesShared = {}]
                 ELSE snapshot
  /\ calls' = 0
  /\ firings' = 0
  /\ sourceCounts' = [s \in DOMAIN sourceCounts |-> 0]
  /\ emitted' = <<>>
  /\ lastRecord' = NoRecord
  /\ lastClear' = [made |-> TRUE, cooling |-> RulesCooling(now), rules |-> threatRules]
  /\ lastRead' = NoRead
  /\ earlierRead' = IF earlierRead.op = "none" THEN earlierRead
                    ELSE [earlierRead EXCEPT !.cleared = TRUE]
  /\ UNCHANGED <<now, limiterVars, managerVars, threatRules, maxEventsHistory, removal>>

\* this.threatRules.set(rule.id, rule): a Map keeps the place of a key it has
MapSet(rules, rule) ==
  IF \E i \in DOMAIN rules : rules[i].id = rule.id
  THEN [i \in DOMAIN rules |-> IF rules[i].id = rule.id THEN rule ELSE rules[i]]
  ELSE Append(rules, rule)

\* this.threatRules.delete(ruleId)
MapDelete(rules, ruleId) == SelectSeq(rules, LAMBDA r : r.id /= ruleId)

\* addThreatRule(rule)
AddThreatRule(rule) ==
  /\ threatRules' = MapSet(threatRules, rule)
  /\ emitted' = <<>>
  /\ lastRecord' = NoRecord
  /\ lastRead' = NoRead
  /\ UNCHANGED <<now, limiterVars, managerVars, events, metrics, lastRuleTrigger, maxEventsHistory,
                 calls, firings, sourceCounts, snapshot, lastClear, removal, earlierRead>>

\* removeThreatRule(ruleId)
RemoveThreatRule(ruleId) ==
  /\ threatRules' = MapDelete(threatRules, ruleId)
  /\ lastRuleTrigger' = [lastRuleTrigger EXCEPT ![ruleId] = Absent]
  /\ removal' = [removal EXCEPT ![ruleId] =
                   IF \A i \in DOMAIN threatRules : threatRules[i].id /= ruleId THEN @
                   ELSE IF ruleId \in RulesCooling(now) THEN "cooling" ELSE "idle"]
  /\ emitted' = <<>>
  /\ lastRecord' = NoRecord
  /\ lastRead' = NoRead
  /\ UNCHANGED <<now, limiterVars, managerVars, events, metrics, maxEventsHistory,
                 calls, firings, sourceCounts, snapshot, lastClear, earlierRead>>

ClearCall == Clear

\* Array.prototype.slice(start): a negative start counts from the end, and
\* -0 is 0
SliceFrom(s, start) ==
  LET k == IF start < 0 THEN Max(Len(s) + start, 0) ELSE Min(start, Len(s))
  IN SubSeq(s, k + 1, Len(s))

\* getRecentEvents(limit): this.events.slice(-limit)
GetRecentEvents(limit) == SliceFrom(events, -limit)

\* getEventsByType(type, limit)
GetEventsByType(type, limit) ==
  SliceFrom(SelectSeq(events, LAMBDA e : e.type = type), -limit)

\* getEventsBySeverity(severity, limit)
GetEventsBySeverity(severity, limit) ==
  SliceFrom(SelectSeq(events, LAMBDA e : e.severity = severity), -limit)

\* a getEventsInRange that leaves out the events stamped endTime
GetEventsInRangeBeforeEnd(startTime, endTime) ==
  SelectSeq(events, LAMBDA e : e.timestamp >= startTime /\ e.timestamp < endTime)

\* getEventsInRange(startTime, endTime)
GetEventsInRange(startTime, endTime) ==
  SelectSeq(events, LAMBDA e : e.timestamp >= startTime /\ e.timestamp <= endTime)

\* isSuspiciousSource without the cutoff: every high or critical event of the
\* source counts, however old
IsSuspiciousSourceEver(source, timeWindow) ==
  Len(SelectSeq(events, LAMBDA e : /\ e.source = source
                                    /\ e.severity \in {"high", "critical"}))
    > SuspiciousThreshold

\* isSuspiciousSource(source, timeWindow)
IsSuspiciousSource(source, timeWindow) ==
  LET cutoff == now - timeWindow
      recentEvents ==
        SelectSeq(events, LAMBDA e : /\ e.source = source
                                     /\ e.timestamp > cutoff
                                     /\ e.severity \in {"high", "critical"})
  IN Len(recentEvents) > SuspiciousThreshold

\* the distinct elements of a sequence in the order of their first occurrence:
\* the iteration order of a Map filled by set() while walking the sequence
RECURSIVE KeysInOrder(_)
KeysInOrder(s) ==
  IF s = <<>> THEN <<>>
  ELSE LET rest == KeysInOrder(SubSeq(s, 1, Len(s) - 1))
           x == s[Len(s)]
       IN IF \E i \in DOMAIN rest : rest[i] = x THEN rest ELSE Append(rest, x)

\* threatCounts after the forEach, as Array.from(entries()).map(...)
ThreatCounts(inRange) ==
  LET types == KeysInOrder([i \in DOMAIN inRange |-> inRange[i].type])
  IN [k \in DOMAIN types |->
        [type |-> types[k],
         count |-> Cardinality({i \in DOMAIN inRange : inRange[i].type = types[k]})]]

\* sourceCounts after the forEach, as Array.from(entries())
ReportSourceCounts(inRange) ==
  LET sources == KeysInOrder([i \in DOMAIN inRange |-> inRange[i].source])
  IN [k \in DOMAIN sources |->
        [source |-> sources[k],
         count |-> Cardinality({i \in DOMAIN inRange : inRange[i].source = sources[k]})]]

\* a report listing the sources with 10 events as well
SuspiciousSourcesFromTen(inRange) ==
  LET kept == SelectSeq(ReportSourceCounts(inRange), LAMBDA c : c.count >= ReportSourceThreshold)
  IN [k \in DOMAIN kept |-> kept[k].source]

\* .filter(([_, count]) => count > 10).map(([source, _]) => source)
SuspiciousSources(inRange) ==
  LET kept == SelectSeq(ReportSourceCounts(inRange), LAMBDA c : c.count > ReportSourceThreshold)
  IN [k \in DOMAIN kept |-> kept[k].source]

\* .sort((a, b) => b.count - a.count).slice(0, 10)
TopThreats(inRange) == Take(SortByCountDesc(ThreatCounts(inRange)), TopThreatsLimit)

\* events.filter(e => e.severity === severity).length
CountOfSeverity(inRange, severity) ==
  Cardinality({i \in DOMAIN inRange : inRange[i].severity = severity})

\* events.filter(e => e.type === ... || ...).length
CountOfTypes(inRange, types) ==
  Cardinality({i \in DOMAIN inRange : inRange[i].type \in types})

\* recommendations that put the lockout advisory before the input-validation one
GenerateRecommendationsReordered(inRange) ==
  LET criticalCount == CountOfSeverity(inRange, "critical")
      highCount == CountOfSeverity(inRange, "high")
      injectionAttempts ==
        CountOfTypes(inRange, {"sql_injection_attempt", "xss_attempt"})
      authFailures == CountOfTypes(inRange, {"authentication_failure"})
  IN (IF criticalCount > 0 THEN << <<"critical_events", criticalCount>> >> ELSE <<>>)
     \o (IF highCount > HighAdvisoryThreshold THEN << <<"tighten_policies">> >> ELSE <<>>)
     \o (IF authFailures > AuthAdvisoryThreshold THEN << <<"lockout_policies">> >> ELSE <<>>)
     \o (IF injectionAttempts > InjectionAdvisoryThreshold
         THEN << <<"input_validation">> >> ELSE <<>>)

\* generateRecommendations(events); a recommendation is its text's name, with the
\* number the text carries
GenerateRecommendations(inRange) ==
  LET criticalCount == CountOfSeverity(inRange, "critical")
      highCount == CountOfSeverity(inRange, "high")
      injectionAttempts ==
        CountOfTypes(inRange, {"sql_injection_attempt", "xss_attempt"})
      authFailures == CountOfTypes(inRange, {"authentication_failure"})
  IN (IF criticalCount > 0 THEN << <<"critical_events", criticalCount>> >> ELSE <<>>)
     \o (IF highCount > HighAdvisoryThreshold THEN << <<"tighten_policies">> >> ELSE <<>>)
     \o (IF injectionAttempts > InjectionAdvisoryThreshold
         THEN << <<"input_validation">> >> ELSE <<>>)
     \o (IF authFailures > AuthAdvisoryThreshold THEN << <<"lockout_policies">> >> ELSE <<>>)

\* generateReport(startTime, endTime)
GenerateReport(startTime, endTime) ==
  LET inRange == GetEventsInRange(startTime, endTime)
      summary ==
        [totalEvents |-> Len(inRange),
         criticalEvents |-> CountOfSeverity(inRange, "critical"),
         highSeverityEvents |-> CountOfSeverity(inRange, "high"),
         uniqueSources |-> Cardinality({inRange[i].source : i \in DOMAIN inRange})]
  IN [summary |-> summary,
      topThreats |-> TopThreats(inRange),
      suspiciousSources |-> SuspiciousSources(inRange),
      recommendations |-> GenerateRecommendations(inRange)]

\* what a read returns, next to the value the same read returned before
ReadResult(op, args, result) ==
  [op |-> op, args |-> args, result |-> result,
   previous |-> IF earlierRead.op = op /\ earlierRead.args = args
                THEN [held |-> TRUE, result |-> earlierRead.result,
                      cleared |-> earlierRead.cleared]
                ELSE NoRead.previous]

\* a read operation whose getRecentEvents takes the returned events out of the
\* log: this.events.splice(-limit)
ReadSplicing(op, args, result) ==
  /\ lastRead' = ReadResult(op, args, result)
  /\ earlierRead' = IF op \in {"getMetrics", "getRecentEvents"}
                    THEN [op |-> op, args |-> args, result |-> result, cleared |-> FALSE]
                    ELSE earlierRead
  /\ events' = IF op = "getRecentEvents"
               THEN SubSeq(events, 1, Len(events) - Len(result)) ELSE events
  /\ UNCHANGED <<now, limiterVars, managerVars, metrics, threatRules, lastRuleTrigger,
                 maxEventsHistory, emitted, lastRecord, calls, firings, sourceCounts,
                 lastClear, removal>>

\* a read operation: it returns its value and assigns to no field
Read(op, args, result) ==
  /\ lastRead' = ReadResult(op, args, result)
  /\ earlierRead' = IF op \in {"getMetrics", "getRecentEvents"}
                    THEN [op |-> op, args |-> args, result |-> result, cleared |-> FALSE]
                    ELSE earlierRead
  /\ UNCHANGED <<now, limiterVars, managerVars, events, metrics, threatRules, lastRuleTrigger,
                 maxEventsHistory, emitted, lastRecord, calls, firings, sourceCounts,
                 lastClear, removal>>

\* getMetrics(): { ...this.metrics }
GetMetrics ==
  /\ snapshot' = [held |-> TRUE, taken |-> metrics, seen |-> metrics,
                  fieldsShared |-> TRUE, arrayShared |-> TRUE,
                  entriesShared |-> TopSourceNames(metrics.topSources)]
  /\ Read("getMetrics", <<>>, metrics)

GetMetricsCall == GetMetrics

MonitorTick(steps, horizon) ==
  /\ \E d \in steps : now + d <= horizon /\ now' = now + d
  /\ lastRead' = NoRead
  /\ UNCHANGED <<limiterVars, managerVars, monitorCore, earlierRead>>

(***************************************************************************)
(*                 SecurityManager and the request adapters                *)
(***************************************************************************)

\* ---- bounds of the manager model
ManagerMax == 2
ManagerHorizon == 1500000
ManagerSteps == {500000}

\* ---- program constants
LruMax == 1000
LruTtlMs == 900000
DefaultManagerWindowMs == 900000
DefaultManagerMax == 100
TooManyRequests == 429
DefaultRetryAfter == 60

Clients == {"ip1"}

\* no value under a key of the cache
NoLimitEntry == [count |-> Absent, resetTime |-> Absent, start |-> Absent]

\* checkRateLimit returned null
NoInfo == [limit |-> Absent, remaining |-> Absent, resetTime |-> Absent, retryAfter |-> Absent]

NoCheck == [made |-> FALSE, via |-> "none", identifier |-> "none", at |-> Absent,
            info |-> NoInfo, status |-> Absent, retryAfterHeader |-> Absent,
            calls |-> 0, opened |-> Absent]

NoWindow == [opened |-> Absent, calls |-> 0]

\* config.security.rateLimit absent or not enabled
RateLimitOff == [enabled |-> FALSE, windowMs |-> Absent, max |-> Absent]

\* new LRUCache({ max: 1000, ttl: 15 min }): the values with the time of their
\* last set(), and the keys from least to most recently used
EmptyCache == [entries |-> [c \in Clients |-> NoLimitEntry], order |-> <<>>]

Touched(order, key) == SelectSeq(order, LAMBDA k : k /= key) \o <<key>>

\* cache.get(key): a value older than ttl is deleted and undefined is
\* returned; a value found becomes the most recently used
CacheGet(cache, key) ==
  LET e == cache.entries[key] IN
  IF e = NoLimitEntry THEN [cache |-> cache, value |-> NoLimitEntry]
  ELSE IF now - e.start > LruTtlMs
       THEN [cache |-> [entries |-> [cache.entries EXCEPT ![key] = NoLimitEntry],
                        order |-> SelectSeq(cache.order, LAMBDA k : k /= key)],
             value |-> NoLimitEntry]
       ELSE [cache |-> [cache EXCEPT !.order = Touched(@, key)], value |-> e]

\* cache.set(key, value): the value's age starts anew; a new key beyond max
\* evicts the least recently used one
CacheSet(cache, key, count, resetTime) ==
  LET value == [count |-> count, resetTime |-> resetTime, start |-> now]
      full == cache.entries[key] = NoLimitEntry /\ Len(cache.order) >= LruMax
      kept == IF full
              THEN [entries |-> [cache.entries EXCEPT ![Head(cache.order)] = NoLimitEntry],
                    order |-> Tail(cache.order)]
              ELSE cache
  IN [entries |-> [kept.entries EXCEPT ![key] = value], order |-> Touched(kept.order, key)]

\* checkRateLimit(identifier): the cache afterwards and the value returned
CheckRateLimit(identifier) ==
  LET rateLimit == manager.rateLimit
      windowMs == OrElse(rateLimit.windowMs, DefaultManagerWindowMs)
      max == OrElse(rateLimit.max, DefaultManagerMax)
      resetTime == now + windowMs
      got == CacheGet(manager.rateLimitStore, identifier)
      current == got.value
      opened == [limit |-> max, remaining |-> max - 1, resetTime |-> resetTime,
                 retryAfter |-> Absent]
  IN IF ~rateLimit.enabled THEN [cache |-> manager.rateLimitStore, info |-> NoInfo]
     ELSE IF current = NoLimitEntry
     THEN [cache |-> CacheSet(got.cache, identifier, 1, resetTime), info |-> opened]
     ELSE IF now > current.resetTime
     THEN [cache |-> CacheSet(got.cache, identifier, 1, resetTime), info |-> opened]
     ELSE IF current.count >= max
     THEN [cache |-> got.cache,
           info |-> [limit |-> max, remaining |-> 0, resetTime |-> current.resetTime,
                     retryAfter |-> CeilDiv(current.resetTime - now, 1000)]]
     ELSE [cache |-> CacheSet(got.cache, identifier, current.count + 1, current.resetTime),
           info |-> [limit |-> max, remaining |-> max - (current.count + 1),
                     resetTime |-> current.resetTime, retryAfter |-> Absent]]

\* the window a call at this instant falls in, counted from the first call of
\* the window for windowMs milliseconds; calls beyond max + 1 are not told apart
WindowAfterCall(identifier) ==
  LET w == clientWindows[identifier]
      windowMs == OrElse(manager.rateLimit.windowMs, DefaultManagerWindowMs)
      max == OrElse(manager.rateLimit.max, DefaultManagerMax)
  IN IF w.opened = Absent \/ now > w.opened + windowMs
     THEN [opened |-> now, calls |-> 1]
     ELSE [w EXCEPT !.calls = Min(@ + 1, max + 1)]

\* the adapters' answer to rateLimitInfo: 429 with a Retry-After header, or
\* the request goes on
RateLimitAnswer(info) ==
  IF info /= NoInfo /\ info.remaining = 0
  THEN [status |-> TooManyRequests,
        retryAfterHeader |-> OrElse(info.retryAfter, DefaultRetryAfter)]
  ELSE [status |-> Absent, retryAfterHeader |-> Absent]

\* a call of checkRateLimit, by the application or by an adapter
Checked(via, identifier) ==
  LET r == CheckRateLimit(identifier)
      w == WindowAfterCall(identifier)
      answer == IF via = "direct" THEN RateLimitAnswer(NoInfo) ELSE RateLimitAnswer(r.info)
  IN /\ manager' = [manager EXCEPT !.rateLimitStore = r.cache]
     /\ clientWindows' = [clientWindows EXCEPT ![identifier] = w]
     /\ lastCheck' = [made |-> TRUE, via |-> via, identifier |-> identifier, at |-> now,
                      info |-> r.info, status |-> answer.status,
                      retryAfterHeader |-> answer.retryAfterHeader,
                      calls |-> w.calls, opened |-> w.opened]
     /\ UNCHANGED <<now, limiterVars, monitorVars>>

CheckRateLimitCall == \E identifier \in Clients : Checked("direct", identifier)

\* the Koa middleware on a request without Origin or Authorization header and
\* with nothing to sanitize, all security headers switched off
KoaRequest == \E clientIp \in Clients : Checked("koa", clientIp)

\* the Fastify onRequest hook on such a request
FastifyRequest == \E clientIp \in Clients : Checked("fastify", clientIp)

\* ---- logSecurityEvent

\* SecurityEvent['type'] values that sanitizeInput, validateJWT and
\* validateFileUpload pass to logSecurityEvent
LoggedTypes == {"xss_attempt", "sql_injection", "suspicious_request", "auth_failure"}

DetermineSeverity(type) ==
  CASE type \in {"csrf_violation", "rate_limit_exceeded"} -> "high"
    [] type \in {"xss_attempt", "sql_injection"} -> "critical"
    [] type = "auth_failure" -> "medium"
    [] type = "suspicious_request" -> "low"
    [] OTHER -> "low"

\* req?.ip || req?.connection?.remoteAddress || 'unknown', no caller passing req
UnknownSource == "unknown"

\* logSecurityEvent(type, details): recordEvent on the manager's monitor with
\* the type as given, then the push onto this.securityEvents
LogSecurityEvent(type, suffixes, maxCalls) ==
  /\ RecordedByMonitor([type |-> type, severity |-> DetermineSeverity(type),
                        source |-> UnknownSource], suffixes, maxCalls)
  /\ manager' = [manager EXCEPT !.securityEvents =
                   Append(@, [type |-> type, timestamp |-> now, ip |-> UnknownSource])]
  /\ lastCheck' = NoCheck
  /\ UNCHANGED clientWindows

ManagerTick ==
  /\ \E d \in ManagerSteps : now + d <= ManagerHorizon /\ now' = now + d
  /\ lastCheck' = NoCheck
  /\ UNCHANGED <<limiterVars, monitorVars, manager, clientWindows>>

\* new SecurityManager(config)
ManagerConstructed(rateLimit) ==
  /\ manager = [rateLimit |-> rateLimit, rateLimitStore |-> EmptyCache, securityEvents |-> <<>>]
  /\ lastCheck = NoCheck
  /\ clientWindows = [c \in Clients |-> NoWindow]

(***************************************************************************)
(*                     Initial states and specifications                   *)
(***************************************************************************)

Sources == {"s1", "s2"}

\* new AdvancedRateLimiter(opts)
LimiterConstructedWith(opts, shadow) ==
  /\ config = MergeConfig(opts)
  /\ store = [k \in Keys |-> NoEntry]
  /\ cleanupArmed = TRUE
  /\ nextCleanup = now + CleanupIntervalMs
  /\ lastCall = NoCall
  /\ allowedInWindow = [k \in Keys |-> 0]
  /\ windowOpenedAt = [k \in Keys |-> Absent]
  /\ calledPastWindow = [k \in Keys |-> FALSE]
  /\ firstCallAt = [k \in Keys |-> Absent]
  /\ allowedSince = [k \in Keys |-> 0]
  /\ resetFrom = [k \in Keys |-> "none"]
  /\ lastSweep = NoSweep
  /\ unswept = shadow

LimiterConstructed(opts) == LimiterConstructedWith(opts, Untracked)

\* new SecurityMonitor({ maxEventsHistory: limit, threatDetectionRules: custom })
MonitorConstructed(limit, custom, sources) ==
  /\ maxEventsHistory = OrElse(limit, DefaultMaxEventsHistory)
  /\ events = <<>>
  /\ metrics = InitializeMetrics
  /\ threatRules = DefaultThreatRules \o custom
  /\ lastRuleTrigger = [r \in RuleIds |-> Absent]
  /\ emitted = <<>>
  /\ lastRecord = NoRecord
  /\ calls = 0
  /\ firings = 0
  /\ sourceCounts = [s \in sources |-> 0]
  /\ snapshot = NoSnapshot
  /\ lastClear = NoClear
  /\ removal = NoRemoval
  /\ lastRead = NoRead
  /\ earlierRead = NoEarlier

\* ---- the rate limiter under isAllowed, reset, destroy, the sweep and the clock
InitLimiter ==
  /\ now = 0
  /\ \E opts \in LimiterOptions : LimiterConstructed(opts)
  /\ ManagerConstructed(RateLimitOff)
  /\ MonitorConstructed(HistoryLimit, <<>>, Sources)

NextLimiter == IsAllowedCall \/ Cleanup \/ ResetCall \/ DestroyCall \/ LimiterTick

SpecLimiter == InitLimiter /\ [][NextLimiter]_vars

\* ---- the limiter with one request per window, asked for its statistics
InitStats ==
  /\ now = 0
  /\ LimiterConstructed([windowMs |-> TestWindowMs, max |-> Absent, maxRequests |-> 1])
  /\ ManagerConstructed(RateLimitOff)
  /\ MonitorConstructed(HistoryLimit, <<>>, Sources)

NextStats == IsAllowedCall \/ Cleanup \/ DestroyCall \/ GetStatsCall \/ LimiterTick

SpecStats == InitStats /\ [][NextStats]_vars

\* ---- the limiter under isAllowed, getStats, the sweep and the clock, next to
\* ---- the store the same calls produce without the sweep
InitSweep ==
  /\ now = 0
  /\ \E opts \in LimiterOptions : LimiterConstructedWith(opts, Tracked)
  /\ ManagerConstructed(RateLimitOff)
  /\ MonitorConstructed(HistoryLimit, <<>>, Sources)

NextSweep == IsAllowedCall \/ Cleanup \/ GetStatsCall \/ LimiterTick

SpecSweep == InitSweep /\ [][NextSweep]_vars

\* ---- the same limiter with its scheduling: time passes, and the interval
\* ---- timer runs cleanup() whenever it is armed and due
SpecStatsFair == InitStats /\ [][NextStats]_vars /\ WF_vars(Cleanup) /\ WF_vars(LimiterTick)

\* ---- the limiter constructed with max alone
OnlyMaxOptions ==
  { [windowMs |-> TestWindowMs, max |-> m, maxRequests |-> Absent] : m \in 1..MaxLimit }

InitOnlyMax ==
  /\ now = 0
  /\ \E opts \in OnlyMaxOptions : LimiterConstructed(opts)
  /\ ManagerConstructed(RateLimitOff)
  /\ MonitorConstructed(HistoryLimit, <<>>, Sources)

\* isAllowed while no key has had more than MaxLimit + 1 calls allowed in its window
IsAllowedFewTimes ==
  /\ \A k \in Keys : allowedInWindow[k] <= MaxLimit
  /\ IsAllowedCall

NextOnlyMax == IsAllowedFewTimes \/ Cleanup \/ LimiterTick

SpecOnlyMax == InitOnlyMax /\ [][NextOnlyMax]_vars

\* ---- the manager's rate limiting, called directly and through the adapters
RateLimitOptions ==
  { [enabled |-> TRUE, windowMs |-> w, max |-> m] :
      w \in {Absent, 500000, 1200000}, m \in 1..ManagerMax }

InitManager ==
  /\ now = 0
  /\ LimiterConstructed([windowMs |-> TestWindowMs, max |-> Absent, maxRequests |-> MaxLimit])
  /\ MonitorConstructed(DefaultMaxEventsHistory, <<>>, Sources)
  /\ \E rateLimit \in RateLimitOptions \cup {RateLimitOff} : ManagerConstructed(rateLimit)

NextManager == CheckRateLimitCall \/ KoaRequest \/ FastifyRequest \/ ManagerTick

SpecManager == InitManager /\ [][NextManager]_vars

\* ---- the monitor under recordEvent, clear and the clock
CustomRuleSets ==
  {<<>>, <<AlwaysRule>>, <<ThrowingRule, AlwaysRule>>, <<AlwaysRule, ThrowingRule>>}

MonitorInputs ==
  { [type |-> "sql_injection_attempt", severity |-> "high", source |-> "s1"],
    [type |-> "xss_attempt", severity |-> "critical", source |-> "s2"],
    [type |-> "xss_attempt", severity |-> "low", source |-> "s1"] }

SuffixChoices == [1..(1 + Cardinality(RuleIds)) -> Suffixes]

InitMonitor ==
  /\ now = 0
  /\ LimiterConstructed([windowMs |-> TestWindowMs, max |-> Absent, maxRequests |-> MaxLimit])
  /\ ManagerConstructed(RateLimitOff)
  /\ \E custom \in CustomRuleSets : MonitorConstructed(HistoryLimit, custom, Sources)

RecordEventCall ==
  \E input \in MonitorInputs, suffixes \in SuffixChoices :
    RecordEvent(input, suffixes, MaxCalls)

ClockAdvances == MonitorTick(MonitorSteps, MonitorHorizon)

NextMonitor == RecordEventCall \/ ClearCall \/ ClockAdvances

Spec == InitMonitor /\ [][NextMonitor]_vars

\* ---- the monitor with a caller that keeps a result of getMetrics()
InitSnapshot ==
  /\ now = 0
  /\ LimiterConstructed([windowMs |-> TestWindowMs, max |-> Absent, maxRequests |-> MaxLimit])
  /\ ManagerConstructed(RateLimitOff)
  /\ MonitorConstructed(HistoryLimit, <<>>, Sources)

NextSnapshot == RecordEventCall \/ ClearCall \/ GetMetricsCall

SpecSnapshot == InitSnapshot /\ [][NextSnapshot]_vars

\* ---- the default rules under authentication failures from two sources
BruteCalls == 6
BruteHorizon == 750000
BruteSteps == {150000}

BruteInputs ==
  { [type |-> "authentication_failure", severity |-> "medium", source |-> s] : s \in Sources }

InitBrute ==
  /\ now = 0
  /\ LimiterConstructed([windowMs |-> TestWindowMs, max |-> Absent, maxRequests |-> MaxLimit])
  /\ ManagerConstructed(RateLimitOff)
  /\ MonitorConstructed(Absent, <<>>, Sources)

RecordAuthFailure ==
  \E input \in BruteInputs, suffixes \in SuffixChoices :
    RecordEvent(input, suffixes, BruteCalls)

BruteClockAdvances == MonitorTick(BruteSteps, BruteHorizon)

NextBrute == RecordAuthFailure \/ BruteClockAdvances

SpecBrute == InitBrute /\ [][NextBrute]_vars

\* ---- the default rules under two bursts of authentication failures from one
\* ---- source and a single failure from another; the clock starts past zero and
\* ---- moves between the bursts
BlockStart == 150000
BlockHorizon == 900000

BlockScript ==
  [i \in 1..(2 * BruteForceThreshold) |->
     [type |-> "authentication_failure", severity |-> "medium", source |-> "s1"]]
  \o << [type |-> "authentication_failure", severity |-> "medium", source |-> "s2"] >>

InitBlock ==
  /\ now = BlockStart
  /\ LimiterConstructed([windowMs |-> TestWindowMs, max |-> Absent, maxRequests |-> MaxLimit])
  /\ ManagerConstructed(RateLimitOff)
  /\ MonitorConstructed(Absent, <<>>, Sources)

RecordForBlock ==
  /\ calls < Len(BlockScript)
  /\ \E suffixes \in SuffixChoices :
       RecordEvent(BlockScript[calls + 1], suffixes, Len(BlockScript))

BlockClockAdvances ==
  /\ calls % BruteForceThreshold = 0
  /\ MonitorTick(BruteSteps, BlockHorizon)

NextBlock == RecordForBlock \/ BlockClockAdvances

SpecBlock == InitBlock /\ [][NextBlock]_vars

\* ---- the manager's own monitor under the detections the manager logs
LogCalls == 5
LogHorizon == 150000

InitManagerEvents ==
  /\ now = 0
  /\ LimiterConstructed([windowMs |-> TestWindowMs, max |-> Absent, maxRequests |-> MaxLimit])
  /\ ManagerConstructed(RateLimitOff)
  /\ MonitorConstructed(DefaultMaxEventsHistory, <<>>, {UnknownSource})

LogSecurityEventCall ==
  \E type \in LoggedTypes, suffixes \in SuffixChoices :
    LogSecurityEvent(type, suffixes, LogCalls)

ManagerEventsClockAdvances == MonitorTick(BruteSteps, LogHorizon)

NextManagerEvents == LogSecurityEventCall \/ ManagerEventsClockAdvances

SpecManagerEvents == InitManagerEvents /\ [][NextManagerEvents]_vars

\* ---- the monitor with a registered rule for each action: log, block, alert
ActionCalls == 4

ActionInputs ==
  { [type |-> "sql_injection_attempt", severity |-> "high", source |-> "s1"],
    [type |-> "sql_injection_attempt", severity |-> "high", source |-> "s2"],
    [type |-> "xss_attempt", severity |-> "low", source |-> "s1"] }

InitActions ==
  /\ now = 0
  /\ LimiterConstructed([windowMs |-> TestWindowMs, max |-> Absent, maxRequests |-> MaxLimit])
  /\ ManagerConstructed(RateLimitOff)
  /\ MonitorConstructed(Absent, <<AlwaysRule, BlockingRule, AlertingRule>>, Sources)

RecordForActions ==
  \E input \in ActionInputs, suffixes \in SuffixChoices :
    RecordEvent(input, suffixes, ActionCalls)

NextActions == RecordForActions \/ ClearCall \/ ClockAdvances

SpecActions == InitActions /\ [][NextActions]_vars

\* ---- the monitor with rules removed and added while it runs
RuleCalls == 3

OperatorRules == {AlwaysRule, ThrowingRule}

InitRules ==
  /\ now = 0
  /\ LimiterConstructed([windowMs |-> TestWindowMs, max |-> Absent, maxRequests |-> MaxLimit])
  /\ ManagerConstructed(RateLimitOff)
  /\ MonitorConstructed(Absent, <<AlwaysRule, ThrowingRule>>, Sources)

RuleInputs ==
  { [type |-> "sql_injection_attempt", severity |-> "high", source |-> "s1"],
    [type |-> "xss_attempt", severity |-> "low", source |-> "s1"] }

RecordWithRules ==
  \E input \in RuleInputs, suffixes \in SuffixChoices :
    RecordEvent(input, suffixes, RuleCalls)

AddThreatRuleCall == \E rule \in OperatorRules : AddThreatRule(rule)

RemoveThreatRuleCall == \E rule \in OperatorRules : RemoveThreatRule(rule.id)

NextRules == RecordWithRules \/ AddThreatRuleCall \/ RemoveThreatRuleCall \/ ClockAdvances

SpecRules == InitRules /\ [][NextRules]_vars

\* ---- the monitor under recordEvent, clear, the clock and the read operations
ReadCalls == 2
SuspiciousHorizon == 300000
ReadSteps == {150000}
ReadLimits == {0, 1, DefaultRecentLimit}
ReadWindows == {DefaultSuspiciousWindowMs}
ReadTimes == {0, 150000}

ReadInputs ==
  { [type |-> "xss_attempt", severity |-> "high", source |-> "s1"],
    [type |-> "sql_injection_attempt", severity |-> "critical", source |-> "s2"] }

InitReads ==
  /\ now = 0
  /\ LimiterConstructed([windowMs |-> TestWindowMs, max |-> Absent, maxRequests |-> MaxLimit])
  /\ ManagerConstructed(RateLimitOff)
  /\ MonitorConstructed(Absent, <<>>, Sources)

RecordForReads ==
  \E input \in ReadInputs, suffixes \in SuffixChoices :
    RecordEvent(input, suffixes, ReadCalls)

ReadClockAdvances == MonitorTick(ReadSteps, SuspiciousHorizon)

GetRecentEventsCall ==
  \E limit \in ReadLimits :
    /\ Read("getRecentEvents", <<limit>>, GetRecentEvents(limit))
    /\ UNCHANGED snapshot

GetEventsByTypeCall ==
  \E type \in {"xss_attempt"}, limit \in ReadLimits :
    /\ Read("getEventsByType", <<type, limit>>, GetEventsByType(type, limit))
    /\ UNCHANGED snapshot

GetEventsBySeverityCall ==
  \E severity \in {"critical"}, limit \in ReadLimits :
    /\ Read("getEventsBySeverity", <<severity, limit>>, GetEventsBySeverity(severity, limit))
    /\ UNCHANGED snapshot

GetEventsInRangeCall ==
  \E startTime \in ReadTimes, endTime \in ReadTimes :
    /\ startTime <= endTime
    /\ Read("getEventsInRange", <<startTime, endTime>>, GetEventsInRange(startTime, endTime))
    /\ UNCHANGED snapshot

IsSuspiciousSourceCall ==
  \E source \in Sources, timeWindow \in ReadWindows :
    /\ Read("isSuspiciousSource", <<source, timeWindow>>,
            IsSuspiciousSource(source, timeWindow))
    /\ UNCHANGED snapshot

GenerateReportCall ==
  \E startTime \in ReadTimes, endTime \in ReadTimes :
    /\ Read("generateReport", <<startTime, endTime>>, GenerateReport(startTime, endTime))
    /\ UNCHANGED snapshot

NextReads ==
  \/ RecordForReads \/ ClearCall
  \/ GetMetricsCall \/ GetRecentEventsCall \/ GetEventsByTypeCall
  \/ GetEventsBySeverityCall \/ GetEventsInRangeCall \/ IsSuspiciousSourceCall
  \/ GenerateReportCall

SpecReads == InitReads /\ [][NextReads]_vars

\* ---- the monitor asked for reports while a caller replays a traffic script:
\* one event of every type, a burst of authentication failures, a burst of
\* high-severity XSS attempts, one critical SQL injection attempt
AuthBurst == 21
HighBurst == 11
ReportHorizon == 150000

SecurityEventTypeList ==
  <<"rate_limit_exceeded", "suspicious_input", "authentication_failure",
    "unauthorized_access", "sql_injection_attempt", "xss_attempt",
    "csrf_token_mismatch", "file_upload_violation", "security_header_missing",
    "malformed_request", "brute_force_attempt", "anomalous_behavior">>

ReportScript ==
  [i \in DOMAIN SecurityEventTypeList |->
     [type |-> SecurityEventTypeList[i], severity |-> "low", source |-> "s1"]]
  \o [i \in 1..AuthBurst |->
        [type |-> "authentication_failure", severity |-> "medium", source |-> "s2"]]
  \o [i \in 1..HighBurst |->
        [type |-> "xss_attempt", severity |-> "high", source |-> "s1"]]
  \o << [type |-> "sql_injection_attempt", severity |-> "critical", source |-> "s2"] >>

RecordForReport ==
  /\ calls < Len(ReportScript)
  /\ \E suffixes \in SuffixChoices :
       RecordEvent(ReportScript[calls + 1], suffixes, Len(ReportScript))

ReportClockAdvances == MonitorTick(ReadSteps, ReportHorizon)

NextReport == RecordForReport \/ ReportClockAdvances \/ GenerateReportCall

SpecReport == InitReads /\ [][NextReport]_vars

\* ---- the monitor with event ids whose random part has two outcomes
IdCalls == 3
IdHorizon == 300000
IdSuffixes == {"a", "b"}

\* the outcomes of the first three Math.random() calls of one recordEvent
IdSuffixChoices ==
  { f \in [1..(1 + Cardinality(RuleIds)) -> IdSuffixes] : \A i \in DOMAIN f : i > 3 => f[i] = "a" }

InitIds ==
  /\ now = 0
  /\ LimiterConstructed([windowMs |-> TestWindowMs, max |-> Absent, maxRequests |-> MaxLimit])
  /\ ManagerConstructed(RateLimitOff)
  /\ MonitorConstructed(Absent, <<AlwaysRule>>, Sources)

RecordForIds ==
  \E suffixes \in IdSuffixChoices :
    RecordEvent([type |-> "xss_attempt", severity |-> "high", source |-> "s1"],
                suffixes, IdCalls)

IdClockAdvances == MonitorTick(ReadSteps, IdHorizon)

NextIds == RecordForIds \/ IdClockAdvances

SpecIds == InitIds /\ [][NextIds]_vars

\* ---- the monitor asked about suspicious sources while events come in
SuspiciousCalls == 7

RecordForSuspicious ==
  \E input \in ReadInputs, suffixes \in SuffixChoices :
    RecordEvent(input, suffixes, SuspiciousCalls)

NextSuspicious == RecordForSuspicious \/ ReadClockAdvances \/ IsSuspiciousSourceCall

SpecSuspicious == InitReads /\ [][NextSuspicious]_vars

\* ---- the top-sources list under events from more sources than it keeps
TopCalls == 12
ManySources == <<"a01", "a02", "a03", "a04", "a05", "a06", "a07", "a08", "a09", "a10", "a11">>

SourcesSeen == {s \in DOMAIN sourceCounts : sourceCounts[s] > 0}

\* the next event comes from a source not seen before, or from the latest one
NextSources ==
  LET n == Cardinality(SourcesSeen) IN
  {ManySources[i] : i \in {n, n + 1} \cap DOMAIN ManySources}

InitTop ==
  /\ now = 0
  /\ LimiterConstructed([windowMs |-> TestWindowMs, max |-> Absent, maxRequests |-> MaxLimit])
  /\ ManagerConstructed(RateLimitOff)
  /\ MonitorConstructed(Absent, <<>>, {ManySources[i] : i \in DOMAIN ManySources})

RecordFromManySources ==
  \E s \in NextSources, suffixes \in SuffixChoices :
    RecordEvent([type |-> "xss_attempt", severity |-> "high", source |-> s],
                suffixes, TopCalls)

NextTop == RecordFromManySources \/ ClearCall

SpecTop == InitTop /\ [][NextTop]_vars

(***************************************************************************)
(*                      Properties of the rate limiter                     *)
(***************************************************************************)

LimitOf == Limits(config).maxRequests
WindowOf == Limits(config).windowMs

\* C1: once max calls for a key were allowed within one window, every further
\* isAllowed call for it that does not reset the window is denied with
\* remaining = 0 and a retryAfter strictly greater than 0.
C1_DeniedWithPositiveRetry ==
  (lastCall.key /= "none" /\ lastCall.preAllowed >= LimitOf /\ ~lastCall.didReset)
    => (~lastCall.allowed /\ lastCall.remaining = 0 /\ lastCall.retryAfter > 0)

\* C2: the first isAllowed call for a key made windowMs or more after the key's
\* current window was opened is allowed with remaining = max - 1.
C2_ResetAfterWindow ==
  (/\ lastCall.key /= "none"
   /\ lastCall.preOpened /= Absent
   /\ lastCall.at - lastCall.preOpened >= WindowOf
   /\ ~lastCall.preSeen)
    => (lastCall.allowed /\ lastCall.remaining = LimitOf - 1)

\* C14: after reset(k), in whatever state k's entry was, the next isAllowed(k)
\* is allowed with remaining = max - 1 and leaves k with 0 violations; and
\* reset(k) changes the entry of no other key.
C14_ResetRestores ==
  /\ [](lastCall.afterReset /= "none" =>
          /\ lastCall.allowed
          /\ lastCall.remaining = LimitOf - 1
          /\ lastCall.post.violations = 0)
  /\ [][\A k \in Keys : Reset(k) => \A j \in Keys \ {k} : store'[j] = store[j]]_vars

C14_Witness ==
  /\ lastCall.afterReset = "violated"
  /\ lastCall.allowed
  /\ lastCall.post.violations = 0
  /\ \E j \in Keys \ {lastCall.key} : store[j] /= NoEntry /\ store[j].violations > 0

\* C15: a run of the sweep deletes an entry only if the entry's window has
\* expired and its violation count is 0, and changes no entry it keeps.
C15_SweepDeletesOnlyExpiredClean ==
  [][lastSweep'.made =>
       \A k \in Keys :
         \/ store'[k] = store[k]
         \/ /\ store'[k] = NoEntry
            /\ store[k] /= NoEntry
            /\ now > store[k].resetTime
            /\ store[k].violations = 0]_vars

C15_Witness ==
  /\ lastSweep.made
  /\ lastSweep.deleted /= {}
  /\ \E k \in lastSweep.kept : store[k].violations > 0 /\ now > store[k].resetTime
  /\ \E k \in lastSweep.deleted : store[k] = NoEntry

\* C16: a denied isAllowed(k) adds exactly 1 to k's violation count and leaves
\* its count and resetTime alone; an allowed one leaves the violation count
\* alone, also when it resets the window; and a violation count returns to 0
\* only through reset(k) or destroy().
C16_ViolationsPersist ==
  /\ [](lastCall.key /= "none" =>
          /\ store[lastCall.key] = lastCall.post
          /\ ~lastCall.allowed =>
                /\ lastCall.pre /= NoEntry
                /\ lastCall.post.violations = lastCall.pre.violations + 1
                /\ lastCall.post.count = lastCall.pre.count
                /\ lastCall.post.resetTime = lastCall.pre.resetTime
          /\ lastCall.allowed =>
                lastCall.post.violations =
                  IF lastCall.pre = NoEntry THEN 0 ELSE lastCall.pre.violations)
  /\ [][\A k \in Keys :
          (/\ store[k] /= NoEntry
           /\ store[k].violations > 0
           /\ (store'[k] = NoEntry \/ store'[k].violations = 0))
            => (Reset(k) \/ Destroy)]_vars

C16_Witness ==
  /\ lastCall.allowed
  /\ lastCall.didReset
  /\ lastCall.pre /= NoEntry
  /\ lastCall.pre.violations = MaxViolations
  /\ lastCall.post.violations = MaxViolations
  /\ lastCall.post.count = 1

FiredRules == {lastRecord.fired[i] : i \in DOMAIN lastRecord.fired}
EvaluatedRules == {lastRecord.evaluated[i] : i \in DOMAIN lastRecord.evaluated}
RuleById(id) == threatRules[CHOOSE i \in DOMAIN threatRules : threatRules[i].id = id]
IsSynthetic(e) == e.details /= NoDetails
Notices(kind, ruleId) ==
  {i \in DOMAIN emitted : emitted[i].kind = kind /\ emitted[i].rule = ruleId}

\* C3: the event log never holds more than maxEventsHistory events, and
\* recording one event while the log is at capacity evicts exactly the oldest.
C3_LogWithinCapacity ==
  /\ Len(events) <= maxEventsHistory
  /\ (lastRecord.made /\ Len(lastRecord.preEvents) = maxEventsHistory)
       => SubSeq(events, 1, maxEventsHistory)
            = Tail(lastRecord.preEvents) \o <<lastRecord.event>>

\* C4: a rule that fired at time t >= 0 does not fire for an event recorded in
\* [t, t + cooldown), and fires for an event of one of its types recorded at or
\* after t + cooldown when its condition holds.
C4_CooldownRespected ==
  lastRecord.made =>
    \A i \in DOMAIN threatRules :
      LET rule == threatRules[i]
          t == lastRecord.preTrigger[rule.id]
      IN t /= Absent =>
           /\ lastRecord.at - t < rule.cooldown => rule.id \notin FiredRules
           /\ (/\ lastRecord.at - t >= rule.cooldown
               /\ ~lastRecord.threw
               /\ lastRecord.event.type \in rule.eventTypes
               /\ Condition(rule.condition,
                            PushBounded(lastRecord.preEvents, lastRecord.event),
                            lastRecord.at))
                => rule.id \in FiredRules

\* C5: from an empty log, authentication failures from one source recorded
\* within 5 minutes emit no brute_force_detection notice during the first four
\* calls, exactly one during the fifth, and none for a further such event
\* recorded within the rule's cooldown.
C5_BruteForceNoticedOnce ==
  (lastRecord.made /\ lastRecord.event.type = "authentication_failure") =>
    LET pre == lastRecord.preEvents
        own == {i \in DOMAIN pre : ~IsSynthetic(pre[i])}
        oneSource == \A i \in own : /\ pre[i].type = "authentication_failure"
                                    /\ pre[i].source = lastRecord.event.source
        within == \A i \in own : lastRecord.at - pre[i].timestamp < BruteForceWindowMs
        n == Cardinality(own) + 1
        notices == Cardinality(Notices("threatDetected", "brute_force_detection"))
        t == lastRecord.preTrigger["brute_force_detection"]
    IN /\ (oneSource /\ within /\ n <= 4) => notices = 0
       /\ (oneSource /\ within /\ n = 5) => notices = 1
       /\ (oneSource /\ n > 5 /\ t /= Absent /\ lastRecord.at - t < BruteForceCooldownMs)
            => notices = 0

\* C6 as stated: totalEvents equals the number of recordEvent calls made since
\* construction or the last clear(), whether or not rules fired.
C6_TotalEqualsCalls == metrics.totalEvents = calls

\* C6 as amended: totalEvents equals the number of recordEvent calls plus the
\* number of rule firings since construction or the last clear().
C6_TotalEqualsCallsPlusFirings == metrics.totalEvents = calls + firings

C6_Witness == calls > 1 /\ firings > 0 /\ metrics.totalEvents = calls + firings

\* C7: a rule condition that throws is not propagated to the caller of
\* recordEvent; the event is recorded and returned, every other rule matching
\* its type is evaluated, and its securityEvent notification is emitted.
C7_FaultyRuleContained ==
  lastRecord.made =>
    /\ ~lastRecord.threw
    /\ events /= <<>>
    /\ \E i \in DOMAIN emitted : /\ emitted[i].kind = "securityEvent"
                                 /\ emitted[i].event = lastRecord.event.id
    /\ \A i \in DOMAIN threatRules :
         (/\ lastRecord.event.type \in threatRules[i].eventTypes
          /\ ~InCooldown(lastRecord.preTrigger[threatRules[i].id],
                         threatRules[i].cooldown, lastRecord.at))
           => threatRules[i].id \in EvaluatedRules

\* C8: every field of a value returned by getMetrics() keeps the value it had
\* when it was returned, whatever recordEvent and clear calls follow.
C8_MetricsSnapshotStable == snapshot.held => snapshot.seen = snapshot.taken

\* C9: a recordEvent call evaluates each registered rule at most once and only
\* for the recorded event's type; the threat event a firing appends updates the
\* metrics and is never itself checked against the rules.
C9_NoReentrantEvaluation ==
  lastRecord.made =>
    /\ \A i, j \in DOMAIN lastRecord.evaluated :
         i /= j => lastRecord.evaluated[i] /= lastRecord.evaluated[j]
    /\ \A id \in EvaluatedRules : lastRecord.event.type \in RuleById(id).eventTypes
    /\ metrics.totalEvents = lastRecord.preTotal + 1 + Len(lastRecord.fired)

C9_Witness ==
  /\ lastRecord.made
  /\ "custom_always" \in FiredRules
  /\ \E i \in DOMAIN threatRules : threatRules[i] = AlwaysRule
  /\ \E i \in DOMAIN events : events[i].type = "anomalous_behavior" /\ IsSynthetic(events[i])
  /\ lastRecord.evaluated = <<"custom_always">>

\* C10: topSources has at most 10 entries, is sorted by descending count, and
\* lists exactly the (up to) 10 sources with the most events since the last
\* clear, each with its true count.
C10_TopSourcesExact ==
  LET top == metrics.topSources
      listed == TopSourceNames(top)
  IN /\ Len(top) = Min(TopSourcesLimit, Cardinality(SourcesSeen))
     /\ \A i, j \in DOMAIN top : i < j => top[i].count >= top[j].count
     /\ \A i, j \in DOMAIN top : i /= j => top[i].source /= top[j].source
     /\ \A i \in DOMAIN top : top[i].count = sourceCounts[top[i].source]
     /\ \A s \in SourcesSeen \ listed : \A i \in DOMAIN top : sourceCounts[s] <= top[i].count

\* the number of events of a log that satisfy a test on one field
CountBy(evts, field, value) == Cardinality({i \in DOMAIN evts : evts[i][field] = value})

\* C11: between operations the metrics equal a recomputation over the events
\* the log currently holds: totalEvents is the log's length, and eventsByType
\* and eventsBySeverity are the log's per-type and per-severity counts.
C11_MetricsMatchLog ==
  /\ metrics.totalEvents = Len(events)
  /\ \A t \in SecurityEventType : metrics.eventsByType[t] = CountBy(events, "type", t)
  /\ \A s \in Severities : metrics.eventsBySeverity[s] = CountBy(events, "severity", s)

RECURSIVE SumOver(_, _)
SumOver(f, S) ==
  IF S = {} THEN 0
  ELSE LET x == CHOOSE y \in S : TRUE IN f[x] + SumOver(f, S \ {x})

\* C12: after any sequence of recordEvent calls, eventsByType summed over all
\* event types equals totalEvents, and eventsBySeverity summed over the four
\* severities equals totalEvents.
C12_CountsSumToTotal ==
  /\ SumOver(metrics.eventsByType, SecurityEventType) = metrics.totalEvents
  /\ SumOver(metrics.eventsBySeverity, Severities) = metrics.totalEvents

C12_Witness ==
  /\ calls >= 3
  /\ firings >= 1
  /\ metrics.eventsByType["xss_attempt"] >= 1
  /\ metrics.eventsByType["sql_injection_attempt"] >= 1
  /\ metrics.eventsByType["anomalous_behavior"] >= 1
  /\ Cardinality({s \in Severities : metrics.eventsBySeverity[s] > 0}) >= 2
  /\ SumOver(metrics.eventsBySeverity, Severities) = calls + firings

\* C13: after clear(), whatever the state before, totalEvents is 0,
\* getRecentEvents() is empty and the registered rules are the same; and the
\* recordEvent call that follows fires every registered rule, one that was in
\* cooldown included, that lists the event's type and whose condition holds.
C13_ClearRestoresAll ==
  /\ lastClear.made =>
       /\ metrics.totalEvents = 0
       /\ GetRecentEvents(DefaultRecentLimit) = <<>>
       /\ threatRules = lastClear.rules
  /\ (lastRecord.made /\ lastRecord.afterClear.made) =>
       \A i \in DOMAIN threatRules :
         (/\ lastRecord.event.type \in threatRules[i].eventTypes
          /\ Condition(threatRules[i].condition, <<lastRecord.event>>, lastRecord.at))
           => threatRules[i].id \in FiredRules

\* how often a call fired the rule
TimesFired(ruleId) == Cardinality({i \in DOMAIN lastRecord.fired : lastRecord.fired[i] = ruleId})

\* C18: each firing of a rule emits exactly one threatDetected notification
\* carrying the rule, the triggering event and the synthetic event, exactly one
\* blockRequest iff the rule's action is 'block', exactly one securityAlert iff
\* it is 'alert', and nothing more if it is 'log'.
C18_NotificationsPerFiring ==
  lastRecord.made =>
    /\ \A j \in DOMAIN emitted :
         emitted[j].kind = "securityEvent" \/ emitted[j].rule \in FiredRules
    /\ \A i \in DOMAIN threatRules :
         LET rule == threatRules[i]
             n == TimesFired(rule.id)
         IN /\ n <= 1
            /\ Cardinality(Notices("threatDetected", rule.id)) = n
            /\ \A j \in Notices("threatDetected", rule.id) :
                 /\ emitted[j].event = lastRecord.event.id
                 /\ \E e \in DOMAIN events :
                      /\ events[e].id = emitted[j].threat
                      /\ IsSynthetic(events[e])
                      /\ events[e].details.ruleName = rule.name
                      /\ events[e].details.triggerEvent = lastRecord.event.id
            /\ Cardinality(Notices("blockRequest", rule.id))
                 = (IF rule.action = "block" THEN n ELSE 0)
            /\ Cardinality(Notices("securityAlert", rule.id))
                 = (IF rule.action = "alert" THEN n ELSE 0)

C18_Witness ==
  /\ lastRecord.made
  /\ FiredRules = {"custom_always", "custom_block", "custom_alert"}
  /\ Cardinality(Notices("blockRequest", "custom_block")) = 1
  /\ Cardinality(Notices("securityAlert", "custom_alert")) = 1
  /\ Len(emitted) = 6

\* C19: a rule fires only while an event of one of its eventTypes is recorded;
\* recording an event of another type neither evaluates its condition, nor
\* fires it, nor changes its cooldown state.
C19_OnlyListedTypes ==
  lastRecord.made =>
    \A i \in DOMAIN threatRules :
      LET rule == threatRules[i] IN
      lastRecord.event.type \notin rule.eventTypes =>
        /\ rule.id \notin EvaluatedRules
        /\ rule.id \notin FiredRules
        /\ lastRuleTrigger[rule.id] = lastRecord.preTrigger[rule.id]

C19_Witness ==
  /\ lastRecord.made
  /\ lastRecord.event.type = "sql_injection_attempt"
  /\ FiredRules = {"injection_attack_pattern"}
  /\ lastRecord.preTrigger["custom_always"] /= Absent
  /\ lastRecord.at - lastRecord.preTrigger["custom_always"] >= CustomCooldownMs
  /\ lastRuleTrigger["custom_always"] = lastRecord.preTrigger["custom_always"]

\* C20: while a SQL_INJECTION_ATTEMPT event is recorded, injection_attack_pattern
\* fires exactly when it is not in cooldown and the log then holds at least 3
\* SQL_INJECTION_ATTEMPT events, from any sources, of the trailing 10 minutes;
\* the synthetic event has severity high and a securityAlert, not a
\* blockRequest, is emitted.
C20_InjectionRuleExact ==
  (lastRecord.made /\ lastRecord.event.type = "sql_injection_attempt") =>
    LET logThen == PushBounded(lastRecord.preEvents, lastRecord.event)
        recent == {i \in DOMAIN logThen :
                     /\ logThen[i].type = "sql_injection_attempt"
                     /\ lastRecord.at - logThen[i].timestamp < InjectionWindowMs}
        t == lastRecord.preTrigger["injection_attack_pattern"]
        cooling == t /= Absent /\ lastRecord.at - t < InjectionCooldownMs
        fired == "injection_attack_pattern" \in FiredRules
    IN /\ fired <=> (~cooling /\ Cardinality(recent) >= InjectionThreshold)
       /\ fired =>
            /\ \E e \in DOMAIN events :
                 /\ IsSynthetic(events[e])
                 /\ events[e].details.ruleName = "Injection Attack Pattern"
                 /\ events[e].timestamp = lastRecord.at
                 /\ events[e].severity = "high"
            /\ Cardinality(Notices("securityAlert", "injection_attack_pattern")) = 1
            /\ Cardinality(Notices("blockRequest", "injection_attack_pattern")) = 0

RegisteredIds == {threatRules[i].id : i \in DOMAIN threatRules}

\* C21: after removeThreatRule(id) the rule does not fire while no rule of that
\* id is registered, and its cooldown state is cleared: a rule added afterwards
\* under that id fires in the next recordEvent call for an event of one of its
\* types when its condition holds, also if the removed rule was in cooldown.
C21_RemovedRuleForgotten ==
  /\ \A id \in RuleIds \ RegisteredIds : lastRuleTrigger[id] = Absent
  /\ lastRecord.made =>
       /\ FiredRules \subseteq RegisteredIds
       /\ \A i \in DOMAIN threatRules :
            LET rule == threatRules[i] IN
            (/\ lastRecord.removal[rule.id] /= "none"
             /\ lastRecord.event.type \in rule.eventTypes
             /\ Condition(rule.condition, PushBounded(lastRecord.preEvents, lastRecord.event),
                          lastRecord.at))
              => rule.id \in FiredRules

\* the n last elements of a sequence, all of it if it is shorter
LastN(s, n) == SubSeq(s, Len(s) - Min(n, Len(s)) + 1, Len(s))

\* C22: for every limit >= 0, getRecentEvents(limit) returns the min(limit, log
\* size) most recently appended events, oldest first; getEventsByType and
\* getEventsBySeverity return the at most limit most recent matching events.
C22_ReadsReturnMostRecent ==
  LET limit == lastRead.args[Len(lastRead.args)] IN
  /\ lastRead.op = "getRecentEvents" => lastRead.result = LastN(events, limit)
  /\ lastRead.op = "getEventsByType" =>
       /\ Len(lastRead.result) <= limit
       /\ lastRead.result
            = LastN(SelectSeq(events, LAMBDA e : e.type = lastRead.args[1]), limit)
  /\ lastRead.op = "getEventsBySeverity" =>
       /\ Len(lastRead.result) <= limit
       /\ lastRead.result
            = LastN(SelectSeq(events, LAMBDA e : e.severity = lastRead.args[1]), limit)

\* the positions in the log of the high or critical events of source s whose
\* timestamp lies in the trailing window (t - w, t]
SevereInWindow(s, w, t) ==
  { i \in DOMAIN events : /\ events[i].source = s
                          /\ events[i].severity \in {"high", "critical"}
                          /\ events[i].timestamp > t - w
                          /\ events[i].timestamp <= t }

\* C23: isSuspiciousSource(s, w) called at time now returns true if and only if
\* more than 5 events of severity high or critical from source s lie within the
\* trailing window of length w ending at now, and false with 5 or fewer.
C23_SuspiciousIffMoreThanFive ==
  lastRead.op = "isSuspiciousSource" =>
    (lastRead.result <=> Cardinality(SevereInWindow(lastRead.args[1], lastRead.args[2], now)) > 5)

\* a source is reported suspicious while another one with older events is not
C23_Witness ==
  /\ lastRead.op = "isSuspiciousSource"
  /\ lastRead.result
  /\ \E i \in DOMAIN events : /\ events[i].source = lastRead.args[1]
                              /\ events[i].severity \in {"high", "critical"}
                              /\ events[i].timestamp <= now - lastRead.args[2]

\* the positions in the log of the events stamped within [startTime, endTime]
InRange(startTime, endTime) ==
  { i \in DOMAIN events : startTime <= events[i].timestamp /\ events[i].timestamp <= endTime }

\* C24: generateReport(start, end) computes its summary over exactly the events
\* in the log with start <= timestamp <= end: their number, the numbers of
\* critical and of high ones, and the number of distinct sources among them.
C24_SummaryOverRange ==
  lastRead.op = "generateReport" =>
    LET inRange == InRange(lastRead.args[1], lastRead.args[2])
        summary == lastRead.result.summary
    IN /\ summary.totalEvents = Cardinality(inRange)
       /\ summary.criticalEvents
            = Cardinality({i \in inRange : events[i].severity = "critical"})
       /\ summary.highSeverityEvents
            = Cardinality({i \in inRange : events[i].severity = "high"})
       /\ summary.uniqueSources = Cardinality({events[i].source : i \in inRange})

\* a report over the single instant start = end that leaves earlier events out
C24_Witness ==
  /\ lastRead.op = "generateReport"
  /\ lastRead.args[1] = lastRead.args[2]
  /\ lastRead.result.summary.totalEvents > 0
  /\ lastRead.result.summary.totalEvents < Len(events)
  /\ lastRead.result.summary.criticalEvents > 0
  /\ lastRead.result.summary.highSeverityEvents > 0
  /\ lastRead.result.summary.uniqueSources = 2

\* C25: in the result of generateReport(start, end), suspiciousSources is
\* exactly the set of sources with more than 10 events in the range, and
\* topThreats lists at most 10 event types, each with its in-range count, in
\* descending order of count, none of them rarer than a type left out.
C25_SourcesAndTopThreats ==
  lastRead.op = "generateReport" =>
    LET inRange == InRange(lastRead.args[1], lastRead.args[2])
        InRangeOfType(type) == Cardinality({i \in inRange : events[i].type = type})
        suspicious == lastRead.result.suspiciousSources
        top == lastRead.result.topThreats
        listed == {top[k].type : k \in DOMAIN top}
        busy == {src \in {events[i].source : i \in inRange} :
                   Cardinality({i \in inRange : events[i].source = src}) > 10}
    IN /\ {suspicious[k] : k \in DOMAIN suspicious} = busy
       /\ Len(suspicious) = Cardinality(busy)
       /\ Len(top) <= 10
       /\ Cardinality(listed) = Len(top)
       /\ \A k \in DOMAIN top : top[k].count = InRangeOfType(top[k].type) /\ top[k].count > 0
       /\ \A k, l \in DOMAIN top : k < l => top[k].count >= top[l].count
       /\ \A type \in SecurityEventType \ listed :
            /\ InRangeOfType(type) > 0 => Len(top) = 10
            /\ \A k \in DOMAIN top : InRangeOfType(type) <= top[k].count

\* a report that lists one source of two as suspicious and cuts the types to 10
C25_Witness ==
  /\ lastRead.op = "generateReport"
  /\ Len(lastRead.result.suspiciousSources) = 1
  /\ lastRead.result.summary.uniqueSources = 2
  /\ Len(lastRead.result.topThreats) = 10
  /\ lastRead.result.topThreats[1].count > lastRead.result.topThreats[10].count
  /\ \E i \in InRange(lastRead.args[1], lastRead.args[2]) :
        \A k \in DOMAIN lastRead.result.topThreats :
          lastRead.result.topThreats[k].type /= events[i].type

AdvisoryRank ==
  [critical_events |-> 1, tighten_policies |-> 2, input_validation |-> 3,
   lockout_policies |-> 4]

\* C26: the recommendations of generateReport contain, in this order and each
\* if and only if its threshold is met by the in-range events: the
\* critical-events advisory (at least 1 critical event), the policy-tightening
\* advisory (more than 10 high events), the input-validation advisory (more
\* than 5 SQL-injection plus XSS events), the lockout-policy advisory (more
\* than 20 authentication failures).
C26_RecommendationsInOrder ==
  lastRead.op = "generateReport" =>
    LET inRange == InRange(lastRead.args[1], lastRead.args[2])
        recs == lastRead.result.recommendations
        given == {recs[k][1] : k \in DOMAIN recs}
        critical == Cardinality({i \in inRange : events[i].severity = "critical"})
        high == Cardinality({i \in inRange : events[i].severity = "high"})
        injections == Cardinality({i \in inRange :
                        events[i].type \in {"sql_injection_attempt", "xss_attempt"}})
        failures == Cardinality({i \in inRange : events[i].type = "authentication_failure"})
    IN /\ "critical_events" \in given <=> critical >= 1
       /\ "tighten_policies" \in given <=> high > 10
       /\ "input_validation" \in given <=> injections > 5
       /\ "lockout_policies" \in given <=> failures > 20
       /\ \A k, l \in DOMAIN recs : k < l => AdvisoryRank[recs[k][1]] < AdvisoryRank[recs[l][1]]
       /\ \A k \in DOMAIN recs : recs[k][1] = "critical_events" => recs[k][2] = critical

\* a report that gives all four advisories
C26_Witness ==
  /\ lastRead.op = "generateReport"
  /\ Len(lastRead.result.recommendations) = 4

\* C27 as stated: the read operations leave the event log, the metrics, the
\* registered rules and the cooldown state unchanged, and two consecutive calls
\* of getMetrics() or of getRecentEvents() with no recordEvent in between
\* return equal values.
C27_ReadsChangeNothing ==
  /\ [][lastRead'.op /= "none"
          => UNCHANGED <<events, metrics, threatRules, lastRuleTrigger>>]_vars
  /\ [](lastRead.previous.held => lastRead.result = lastRead.previous.result)

\* C27: the read operations leave the event log, the metrics, the registered
\* rules and the cooldown state unchanged, and two consecutive calls of
\* getMetrics() or of getRecentEvents() with neither recordEvent nor clear() in
\* between return equal values.
C27_ReadsChangeNothingUnlessCleared ==
  /\ [][lastRead'.op /= "none"
          => UNCHANGED <<events, metrics, threatRules, lastRuleTrigger>>]_vars
  /\ []((lastRead.previous.held /\ ~lastRead.previous.cleared)
          => lastRead.result = lastRead.previous.result)

\* getRecentEvents returns the events it returned before, other reads between
C27_Witness ==
  /\ lastRead.op = "getRecentEvents"
  /\ lastRead.previous.held
  /\ ~lastRead.previous.cleared
  /\ lastRead.result /= <<>>
  /\ lastRead.result = lastRead.previous.result
  /\ metrics.totalEvents = Len(events)

\* C28: no two events created by one SecurityMonitor, whether returned by
\* recordEvent or synthesized by a rule firing, ever have the same id, also
\* when they are created at the same clock instant.
C28_IdsUnique ==
  \A i, j \in DOMAIN events : i /= j => events[i].id /= events[j].id

\* C29: destroy() leaves the store empty and the background sweep stopped,
\* however often it has been called before, and after destroy() the sweep
\* stays stopped and never runs again.
C29_DestroyIdempotent ==
  /\ [](lastCall.op = "destroy" =>
          /\ \A k \in Keys : store[k] = NoEntry
          /\ ~cleanupArmed)
  /\ [][~cleanupArmed => (~cleanupArmed' /\ ~lastSweep'.made)]_vars

\* destroy() called on a limiter destroyed before, at a time a sweep was due
C29_Witness ==
  /\ lastCall.op = "destroy"
  /\ ~lastCall.armedBefore
  /\ now >= nextCleanup

StoredKeys == {k \in Keys : store[k] /= NoEntry}

\* C30: getStats() returns totalEntries equal to the number of keys in the
\* store, activeEntries equal to the number of stored entries whose window has
\* not expired and totalViolations equal to the sum of the stored entries'
\* violation counts; activeEntries <= totalEntries; and an isAllowed(k) call
\* that follows at the same instant keeps the window of k exactly when k's
\* entry counts as active.
C30_StatsMatchStore ==
  /\ [](lastCall.op = "getStats" =>
          /\ lastCall.stats.totalEntries = Cardinality(StoredKeys)
          /\ lastCall.stats.activeEntries
               = Cardinality({k \in StoredKeys : ~WindowExpired(store[k], now)})
          /\ lastCall.stats.totalViolations
               = SumOver([k \in Keys |-> IF k \in StoredKeys THEN store[k].violations ELSE 0],
                         Keys)
          /\ lastCall.stats.activeEntries <= lastCall.stats.totalEntries)
  /\ [][(lastCall.op = "getStats" /\ lastCall'.op = "isAllowed")
          => LET k == lastCall'.key
                 kept == store[k] /= NoEntry /\ store'[k].resetTime = store[k].resetTime
                 active == Cardinality({j \in StoredKeys \ {k} : now <= store[j].resetTime})
                           + (IF kept THEN 1 ELSE 0)
             IN lastCall.stats.activeEntries = active]_vars

\* statistics with an expired entry next to one at the very end of its window
C30_Witness ==
  /\ lastCall.op = "getStats"
  /\ lastCall.stats.totalEntries = 2
  /\ lastCall.stats.activeEntries = 1
  /\ lastCall.stats.totalViolations > 1
  /\ \E k \in StoredKeys : now = store[k].resetTime

ManagerLimit == OrElse(manager.rateLimit.max, DefaultManagerMax)

\* C31: with rate limiting enabled, checkRateLimit reports remaining = max
\* minus the number of calls made in the current window for the first max calls
\* of a window, and remaining = 0 with a retryAfter for every further call made
\* before the window's resetTime; remaining = max - 1 comes again only with the
\* first call of a new window.
C31_RemainingCountsDown ==
  (lastCheck.made /\ manager.rateLimit.enabled) =>
    /\ lastCheck.calls <= ManagerLimit =>
         /\ lastCheck.info.remaining = ManagerLimit - lastCheck.calls
         /\ lastCheck.info.retryAfter = Absent
    /\ lastCheck.calls > ManagerLimit =>
         /\ lastCheck.info.remaining = 0
         /\ lastCheck.info.retryAfter /= Absent
    /\ lastCheck.info.resetTime
         = lastCheck.opened + OrElse(manager.rateLimit.windowMs, DefaultManagerWindowMs)

\* C32: the Koa and Fastify middleware answer a request with 429 if and only if
\* checkRateLimit found the client's count already at max: the first max
\* requests of a window are passed on, the (max+1)-th is the first rejected.
C32_ExactlyMaxPassed ==
  (lastCheck.made /\ lastCheck.via \in {"koa", "fastify"} /\ manager.rateLimit.enabled) =>
    (lastCheck.status = TooManyRequests <=> lastCheck.calls > ManagerLimit)

\* events of one type that one source has in the log within the window ending at t
OwnRecent(evts, type, window, source, t) ==
  {i \in RecentOfType(evts, type, window, t) : evts[i].source = source}

\* the source named by a notice of a per-source default rule has itself reached
\* the rule's threshold in the rule's trailing window
NamedSourceReaches(notice, evts, t) ==
  CASE notice.rule = "brute_force_detection" ->
         Cardinality(OwnRecent(evts, "authentication_failure", BruteForceWindowMs,
                               notice.source, t)) >= BruteForceThreshold
    [] notice.rule = "rate_limit_abuse" ->
         Cardinality(OwnRecent(evts, "rate_limit_exceeded", RateAbuseWindowMs,
                               notice.source, t)) >= RateAbuseThreshold
    [] OTHER -> TRUE

\* C33: when brute_force_detection or rate_limit_abuse fires, the source named
\* in the blockRequest notification and carried by the synthetic event has
\* itself reached the rule's threshold in the rule's trailing window.
C33_NamedSourceMeetsThreshold ==
  lastRecord.made =>
    \A i \in DOMAIN emitted :
      emitted[i].kind \in {"threatDetected", "blockRequest"} =>
        /\ NamedSourceReaches(emitted[i],
                              PushBounded(lastRecord.preEvents, lastRecord.event),
                              lastRecord.at)
        /\ \A j \in DOMAIN events :
             (/\ emitted[i].kind = "threatDetected"
              /\ IsSynthetic(events[j])
              /\ events[j].id = emitted[i].threat
              /\ events[j].timestamp = lastRecord.at
              /\ events[j].details.triggerEvent = emitted[i].event)
               => events[j].source = emitted[i].source

\* C34: every event the SecurityManager records into its monitor has a type of
\* SecurityEventType, so that eventsByType keeps exactly the enumeration's
\* keys, each with an integer count.
C34_ManagerEventsAreTyped ==
  /\ \A i \in DOMAIN events : events[i].type \in SecurityEventType
  /\ DOMAIN metrics.eventsByType = SecurityEventType
  /\ \A t \in DOMAIN metrics.eventsByType : metrics.eventsByType[t] \in Nat

\* C35: a limiter constructed with max = m and no maxRequests enforces m: in
\* each window of a key the first m calls are allowed and the (m+1)-th is the
\* first one denied.
C35_OnlyMaxIsTheLimit ==
  (lastCall.op = "isAllowed" /\ config \in {MergeConfig(o) : o \in OnlyMaxOptions}) =>
    /\ LimitOf = config.max
    /\ lastCall.allowed <=> (lastCall.didReset \/ lastCall.preAllowed < config.max)

\* positions in the notifications of the last call that announce an event
Announcements == {i \in DOMAIN emitted : emitted[i].kind = "securityEvent"}

\* C36: every recordEvent call emits exactly one securityEvent notification,
\* for the recorded event, and emits it last: every threatDetected,
\* blockRequest and securityAlert notification the event caused precedes it.
C36_AnnouncedOnceAndLast ==
  lastRecord.made =>
    /\ Cardinality(Announcements) = 1
    /\ Len(emitted) \in Announcements
    /\ emitted[Len(emitted)].event = lastRecord.event.id

\* the events the last recordEvent call appended to the log: the recorded one
\* and one synthetic event per rule fired
AppendedByLastCall == 1 + Len(lastRecord.fired)

C38_SweepInvisible ==
  unswept.tracked =>
    /\ lastCall.op = "isAllowed" =>
         unswept.last = [allowed |-> lastCall.allowed, remaining |-> lastCall.remaining,
                         resetTime |-> lastCall.resetTime,
                         retryAfter |-> lastCall.retryAfter]
    /\ \A k \in StoredKeys : store[k].violations = unswept.store[k].violations

\* an isAllowed call for a key the sweep has removed and the unswept store holds
C38_Witness ==
  /\ unswept.tracked
  /\ lastCall.op = "isAllowed"
  /\ lastCall.pre = NoEntry
  /\ unswept.found /= NoEntry
  /\ lastCall.allowed
  /\ \E k \in Keys : store[k] /= NoEntry /\ store[k].violations > 0

\* a stored entry of key k that the sweep is to remove: expired, without
\* violations, the timer armed and its next run within the time modelled
Sweepable(k) ==
  /\ store[k] /= NoEntry
  /\ WindowExpired(store[k], now)
  /\ store[k].violations = 0
  /\ cleanupArmed
  /\ nextCleanup <= LimiterHorizon

\* the entry is gone, or isAllowed(k) has opened a new window, or destroy()
\* has stopped the timer
SweptOrRenewed(k) ==
  \/ store[k] = NoEntry
  \/ ~WindowExpired(store[k], now)
  \/ ~cleanupArmed

\* C39: while the limiter is not destroyed and its timer keeps firing, every
\* stored entry that is expired, has no violations and gets no further
\* isAllowed call is eventually removed, and what a sweep leaves stored are
\* only keys that are active or have violations.
C39_ExpiredEventuallySwept ==
  /\ \A k \in Keys : Sweepable(k) ~> SweptOrRenewed(k)
  /\ [](lastSweep.made =>
          \A k \in StoredKeys : ~WindowExpired(store[k], now) \/ store[k].violations > 0)

\* a sweep that removed an expired entry and kept another one
C39_Witness ==
  /\ lastSweep.made
  /\ lastSweep.deleted /= {}
  /\ lastSweep.kept /= {}
  /\ cleanupArmed

\* the limit the options ask for: maxRequests when it was given, otherwise max
ConfiguredLimit ==
  IF config \in {MergeConfig(o) : o \in OnlyMaxOptions} THEN config.max ELSE LimitOf

\* C40: every stored entry has 1 <= count <= max and violations >= 0, and the
\* calls allowed for a key since its window opened never exceed max, max being
\* the limit the limiter was configured with.
C40_EntriesWithinLimit ==
  \A k \in Keys :
    /\ store[k] /= NoEntry =>
         /\ 1 <= store[k].count
         /\ store[k].count <= ConfiguredLimit
         /\ store[k].violations >= 0
    /\ allowedInWindow[k] <= ConfiguredLimit

====
